---------------------------- MODULE Spec2Model ----------------------------
(***************************************************************************)
(* Model of libibverbs/examples/mlx5dv_manual_trigger.c: the completion    *)
(* ring reader (manual_poll_cq, poll_completion) and the send ring poster  *)
(* (local_write), together with the hardware that shares the rings.        *)
(*                                                                         *)
(* Memory shared with hardware is kept as bytes in address order, so a     *)
(* big-endian field is the sequence of its bytes, most significant first.  *)
(***************************************************************************)
EXTENDS Integers, Sequences, FiniteSets, TLC

(***************************************************************************)
(* Bounds of the model.                                                    *)
(***************************************************************************)
\* Number of completion records the synthetic hardware writes in SpecRing.
MaxRecords == 5

\* Number of calls of local_write that get past the blueflame check.
MaxPosts == 3

\* Milliseconds the clock of poll_completion advances in one step.
TickMs == 5000

(***************************************************************************)
(* Program constants.                                                      *)
(***************************************************************************)
MLX5_CQE_REQ == 0
MLX5_CQE_RESP_WR_IMM == 1
MLX5_CQE_RESP_SEND == 2
MLX5_CQE_RESP_SEND_IMM == 3
MLX5_CQE_REQ_ERR == 13
MLX5_CQE_RESP_ERR == 14
MLX5_CQE_INVALID == 15

MLX5_OPCODE_SEND_INVAL == 1
MLX5_OPCODE_RDMA_WRITE == 8
MLX5_OPCODE_RDMA_WRITE_IMM == 9
MLX5_OPCODE_SEND == 10
MLX5_OPCODE_SEND_IMM == 11
MLX5_OPCODE_RDMA_READ == 16

\* The six completion opcodes manual_poll_cq has a case for.
KnownCqeOpcodes ==
    {MLX5_CQE_REQ, MLX5_CQE_RESP_SEND, MLX5_CQE_RESP_SEND_IMM,
     MLX5_CQE_RESP_WR_IMM, MLX5_CQE_REQ_ERR, MLX5_CQE_RESP_ERR}

\* A completion opcode of the device that manual_poll_cq has no case for
\* (5 is the device's resize-CQ completion).
UnknownCqeOpcode == 5

(***************************************************************************)
(* Integer helpers.  A uint32_t is kept as its two 16-bit halves           *)
(* <<high, low>>, so that it has all 32 bits and wraps as in C (TLC's own  *)
(* integers stop at 2^31 - 1).                                             *)
(***************************************************************************)
Pow2_16 == 2^16

\* The uint32_t of a small natural number.
U32(n) == << (n \div Pow2_16) % Pow2_16, n % Pow2_16 >>

\* The natural number of a uint32_t below 2^31.
ToNat(x) == (x[1] * Pow2_16) + x[2]

Add32(x, y) ==
    LET lo == x[2] + y[2]
        hi == x[1] + y[1] + (lo \div Pow2_16)
    IN  << hi % Pow2_16, lo % Pow2_16 >>

Sub32(x, y) ==
    LET lo == x[2] - y[2]
        hi == (x[1] - y[1]) - (IF lo < 0 THEN 1 ELSE 0)
    IN  << (hi + Pow2_16) % Pow2_16, (lo + Pow2_16) % Pow2_16 >>

RECURSIVE BitAnd(_, _)
BitAnd(a, b) ==
    IF a = 0 \/ b = 0 THEN 0
    ELSE ((a % 2) * (b % 2)) + 2 * BitAnd(a \div 2, b \div 2)

RECURSIVE BitXor(_, _)
BitXor(a, b) ==
    IF a = 0 THEN b
    ELSE IF b = 0 THEN a
    ELSE (((a % 2) + (b % 2)) % 2) + 2 * BitXor(a \div 2, b \div 2)

And32(x, y) == << BitAnd(x[1], y[1]), BitAnd(x[2], y[2]) >>

Xor32(x, y) == << BitXor(x[1], y[1]), BitXor(x[2], y[2]) >>

\* x % w for a uint32_t x and a small positive w.
Mod32(x, w) == (((x[1] % w) * (Pow2_16 % w)) + x[2]) % w

\* x >> 24
Shr24(x) == x[1] \div 256

\* 0xffffff and 0xffff
Mask24 == << 255, 65535 >>
Mask16 == << 0, 65535 >>

\* htobe32: the four bytes, in address order, of the stored value.
htobe32(x) == << x[1] \div 256, x[1] % 256, x[2] \div 256, x[2] % 256 >>

\* be32toh: the host value of four bytes in address order.
be32toh(b) == << (b[1] * 256) + b[2], (b[3] * 256) + b[4] >>

(***************************************************************************)
(* Completion record (struct mlx5_cqe64): the fields the reader touches.   *)
(***************************************************************************)
\* op_own: opcode in the high four bits, ownership in bit 0.
OpOwn(opcode, owner) == (opcode * 16) + owner

mlx5dv_get_cqe_opcode(cqe) == cqe.op_own \div 16

mlx5dv_get_cqe_owner(cqe) == cqe.op_own % 2

\* A slot as the provider leaves it when the queue is created: opcode
\* INVALID, ownership 0, payload zero.
EmptyCqe ==
    [op_own |-> OpOwn(MLX5_CQE_INVALID, 0),
     sop_drop_qpn |-> htobe32(U32(0)),
     byte_cnt |-> htobe32(U32(0)),
     imm_inval_pkey |-> htobe32(U32(0))]

(***************************************************************************)
(* State.                                                                  *)
(***************************************************************************)
VARIABLES
    cqe_cnt,        \* mlx5dv_cq.cqe_cnt, a power of two
    cq,             \* mlx5dv_cq.buf: slot -> completion record
    dbrec,          \* mlx5dv_cq.dbrec[MLX5_CQ_SET_CI], four bytes
    cq_cons_index,  \* res->cq_cons_index
    rpc,            \* position inside manual_poll_cq
    r_opcode,       \* manual_poll_cq's local opcode
    r_owner,        \* manual_poll_cq's local owner
    r_expected,     \* manual_poll_cq's local expected_owner
    r_sop,          \* the value the last load of cqe64->sop_drop_qpn gave
    wc,             \* the struct ibv_wc the caller passed
    r_ret,          \* value of the last return of manual_poll_cq
    r_start,        \* history: what held when the current call started
    hwProd,         \* hardware: records completely written so far
    hwBusy,         \* hardware: payload of record hwProd written, op_own not yet
    hwOverrun       \* history: hardware wrote over a record not yet consumed

VARIABLES
    wqe_cnt,        \* mlx5dv_qp.sq.wqe_cnt
    bf_reg,         \* mlx5dv_qp.bf.reg is not NULL
    bf_size,        \* mlx5dv_qp.bf.size
    sq,             \* mlx5dv_qp.sq.buf as hardware sees it: slot -> descriptor
    sbuf,           \* the processor's stores to sq not yet visible to hardware
    sq_cur_post,    \* res->sq_cur_post
    bf_offset,      \* res->bf_offset
    lpc,            \* position inside local_write
    l_ret,          \* value of the last return of local_write
    l_start,        \* history: what held when the current local_write started
    ppc,            \* position inside poll_completion
    p_rc,           \* poll_completion's rc
    elapsed,        \* milliseconds since poll_completion took start_time_msec
    trig,           \* history: the writes to the trigger register, in order
    hwSqCons,       \* hardware: trigger writes observed and acted on
    hwStage,        \* hardware: "idle", "fetched" (descriptor read), "cqe"
    hwWqe,          \* hardware: the descriptor it read for the last trigger
    hwQpErr,        \* hardware: the queue pair is in the error state
    lastFetch,      \* history: the last descriptor read and whose it was
    mpc,            \* position inside main: "loop", "exit" (main_exit), "done"
    m_rc            \* main's rc

readerVars == <<cq_cons_index, rpc, r_opcode, r_owner, r_expected, r_sop, wc, r_ret, r_start>>
cqHwVars == <<hwProd, hwBusy, hwOverrun>>
cfgVars == <<cqe_cnt, wqe_cnt, bf_reg, bf_size>>
posterVars == <<sq_cur_post, bf_offset, lpc, l_ret, l_start, trig>>
waitVars == <<ppc, p_rc, elapsed>>
sqMemVars == <<sq, sbuf>>
sqHwVars == <<hwSqCons, hwStage, hwWqe, hwQpErr, lastFetch>>
sendVars == <<posterVars, waitVars, sqMemVars, sqHwVars>>
mainVars == <<mpc, m_rc>>
vars == <<cfgVars, cq, dbrec, readerVars, cqHwVars, sendVars, mainVars>>


\* The queue pair's number, res->qp->qp_num (the value of the sample run).
QpNum == 301

\* The ring sizes the queue may have been created with.
CqeCnts == {1, 2, 4}

CqSlots == 0 .. (cqe_cnt - 1)

(***************************************************************************)
(* manual_poll_cq                                                          *)
(***************************************************************************)
\* Mutant: the slot index masked with cqe_cnt instead of cqe_cnt - 1.
CqeIdxMaskCnt(index, cnt) == ToNat(And32(index, U32(cnt))) % cnt

\* cqe_idx = res->cq_cons_index & (res->mlx5dv_cq.cqe_cnt - 1)
CqeIdx(index, cnt) == ToNat(And32(index, Sub32(U32(cnt), U32(1))))

\* Mutant: the expected ownership never flips.
ExpectedOwnerNoFlip(index, cnt) == 0

\* Mutant: the expected ownership taken from the slot bits, not the lap bit.
ExpectedOwnerOfSlot(index, cnt) ==
    IF And32(index, Sub32(U32(cnt), U32(1))) # U32(0) THEN 1 ELSE 0

\* Mutant: the expected ownership taken from the lowest bit of the index.
ExpectedOwnerLowBit(index, cnt) == index[2] % 2

\* expected_owner = !!(res->cq_cons_index & res->mlx5dv_cq.cqe_cnt)
ExpectedOwner(index, cnt) == IF And32(index, U32(cnt)) # U32(0) THEN 1 ELSE 0

\* The record sizes of the provider.
CqeSizes == {64, 128}

\* Mutant: the record taken from the second 64 bytes whatever the size.
CqeOffsetAlwaysSkip(index, cnt, size) == (CqeIdx(index, cnt) * size) + 64

\* cqe = buf + cqe_idx * cqe_size; cqe64 = (cqe_size == 64) ? cqe : cqe + 64:
\* the offset of cqe64 from buf.
CqeOffset(index, cnt, size) ==
    (CqeIdx(index, cnt) * size) + (IF size = 64 THEN 0 ELSE 64)

\* memset(wc, 0, sizeof(*wc)): opcode 0 is IBV_WC_SEND, status 0 is
\* IBV_WC_SUCCESS.
ZeroWc ==
    [qp_num |-> U32(0), byte_len |-> U32(0), opcode |-> "IBV_WC_SEND",
     wc_flags |-> {}, imm_data |-> U32(0), status |-> "IBV_WC_SUCCESS"]

\* The header of the decode: qp_num and byte_len are taken from the record
\* before the opcode is looked at.
WcHeader(cqe) ==
    [ZeroWc EXCEPT !.qp_num = And32(be32toh(cqe.sop_drop_qpn), Mask24),
                   !.byte_len = be32toh(cqe.byte_cnt)]

\* Mutant: every requester completion classified as a send.
ReqWcAllSend(w, sw, fl) == [w EXCEPT !.opcode = "IBV_WC_SEND"]

\* The sub-code switch of case MLX5_CQE_REQ: sw is the value of
\* cqe64->sop_drop_qpn the switch statement saw, fl the value the comparison
\* for IBV_WC_WITH_IMM inside the case saw.
ReqWc(w, sw, fl) ==
    LET sop == Shr24(be32toh(sw))
        chk == Shr24(be32toh(fl))
    IN
    IF sop \in {MLX5_OPCODE_RDMA_WRITE, MLX5_OPCODE_RDMA_WRITE_IMM}
    THEN [w EXCEPT !.opcode = "IBV_WC_RDMA_WRITE",
                   !.wc_flags = IF chk = MLX5_OPCODE_RDMA_WRITE_IMM
                                THEN @ \cup {"IBV_WC_WITH_IMM"} ELSE @]
    ELSE IF sop \in {MLX5_OPCODE_SEND, MLX5_OPCODE_SEND_IMM, MLX5_OPCODE_SEND_INVAL}
    THEN [w EXCEPT !.opcode = "IBV_WC_SEND",
                   !.wc_flags = IF chk = MLX5_OPCODE_SEND_IMM
                                THEN @ \cup {"IBV_WC_WITH_IMM"} ELSE @]
    ELSE IF sop = MLX5_OPCODE_RDMA_READ
    THEN [w EXCEPT !.opcode = "IBV_WC_RDMA_READ"]
    ELSE [w EXCEPT !.opcode = "IBV_WC_SEND"]

\* The switch on the opcode, applied to the wc that holds qp_num and
\* byte_len already: case MLX5_CQE_REQ reads sop_drop_qpn of the record, the
\* two cases with immediate data read imm_inval_pkey, the others read nothing.
SwitchWc(opcode, w, cqe) ==
    IF opcode = MLX5_CQE_REQ
    THEN [ReqWc(w, cqe.sop_drop_qpn, cqe.sop_drop_qpn) EXCEPT !.status = "IBV_WC_SUCCESS"]
    ELSE IF opcode = MLX5_CQE_RESP_SEND
    THEN [w EXCEPT !.opcode = "IBV_WC_RECV", !.status = "IBV_WC_SUCCESS"]
    ELSE IF opcode = MLX5_CQE_RESP_SEND_IMM
    THEN [w EXCEPT !.opcode = "IBV_WC_RECV",
                   !.wc_flags = @ \cup {"IBV_WC_WITH_IMM"},
                   !.imm_data = be32toh(cqe.imm_inval_pkey),
                   !.status = "IBV_WC_SUCCESS"]
    ELSE IF opcode = MLX5_CQE_RESP_WR_IMM
    THEN [w EXCEPT !.opcode = "IBV_WC_RECV_RDMA_WITH_IMM",
                   !.wc_flags = @ \cup {"IBV_WC_WITH_IMM"},
                   !.imm_data = be32toh(cqe.imm_inval_pkey),
                   !.status = "IBV_WC_SUCCESS"]
    ELSE IF opcode \in {MLX5_CQE_REQ_ERR, MLX5_CQE_RESP_ERR}
    THEN [w EXCEPT !.status = "IBV_WC_GENERAL_ERR"]
    ELSE w

\* The work completion of a call whose loads all saw the one record cqe.
ClassifyWc(opcode, cqe) == SwitchWc(opcode, WcHeader(cqe), cqe)

\* Mutant: the default case breaks out of the switch instead of returning 0.
SwitchHasCaseAlways(opcode) == TRUE

\* Mutant: the switch has a case for the resize completion as well.
SwitchHasCaseResize(opcode) == opcode \in KnownCqeOpcodes \/ opcode = UnknownCqeOpcode

\* Whether the switch has a case for the opcode (otherwise: default, return 0).
SwitchHasCase(opcode) == opcode \in KnownCqeOpcodes

\* The record the reader's pointer cqe64 designates.
ConsCqe == cq[CqeIdx(cq_cons_index, cqe_cnt)]

\* The value the opcode pre-check compares with MLX5_CQE_INVALID.
PreCheckOpcode(cqe) == mlx5dv_get_cqe_opcode(cqe)

\* The opcode the switch classifies by: the local read before the ownership
\* check, not a second read of the record.
SwitchOpcode(local, cqe) == local

\* Mutant: the doorbell value one ahead of the index.
DoorbellValueAhead(index) == htobe32(And32(Add32(index, U32(1)), Mask24))

\* Mutant: the doorbell value without the 24-bit mask.
DoorbellValueNoMask(index) == htobe32(index)

\* The value published to the doorbell record.
DoorbellValue(index) == htobe32(And32(index, Mask24))

\* Mutant: the ownership check never rejects.
OwnerMismatchNever(owner, expected) == FALSE

\* if (owner != expected_owner) return 0;
OwnerMismatch(owner, expected) == owner # expected

\* Step 3: opcode = mlx5dv_get_cqe_opcode(cqe64); INVALID returns 0.
PollLoadOpcode ==
    /\ rpc = "opcode"
    /\ r_opcode' = PreCheckOpcode(ConsCqe)
    /\ r_start' = [idx |-> cq_cons_index, db |-> dbrec, written |-> hwProd]
    /\ IF PreCheckOpcode(ConsCqe) = MLX5_CQE_INVALID
       THEN rpc' = "idle" /\ r_ret' = 0
       ELSE rpc' = "own" /\ r_ret' = r_ret
    /\ UNCHANGED <<cq_cons_index, r_owner, r_expected, r_sop, wc, dbrec>>

\* Step 4: the ownership bit against the expected one; a mismatch returns 0.
PollCheckOwner ==
    /\ rpc = "own"
    /\ r_owner' = mlx5dv_get_cqe_owner(ConsCqe)
    /\ r_expected' = ExpectedOwner(cq_cons_index, cqe_cnt)
    /\ IF OwnerMismatch(mlx5dv_get_cqe_owner(ConsCqe),
                        ExpectedOwner(cq_cons_index, cqe_cnt))
       THEN rpc' = "idle" /\ r_ret' = 0
       ELSE rpc' = "decode" /\ r_ret' = r_ret
    /\ UNCHANGED <<cq_cons_index, r_opcode, r_sop, wc, r_start, dbrec>>

\* Steps 5 and 6: the barrier, memset(wc), then the first load of the record:
\* wc->qp_num = be32toh(cqe64->sop_drop_qpn) & 0xffffff.
PollDecode ==
    /\ rpc = "decode"
    /\ r_sop' = ConsCqe.sop_drop_qpn
    /\ wc' = [ZeroWc EXCEPT !.qp_num = And32(be32toh(ConsCqe.sop_drop_qpn), Mask24)]
    /\ rpc' = "len"
    /\ UNCHANGED <<cq_cons_index, r_opcode, r_owner, r_expected, r_ret, r_start, dbrec>>

\* wc->byte_len = be32toh(cqe64->byte_cnt), a load of its own, then the
\* switch: an opcode without a case returns 0 with wc already overwritten, a
\* case that reads nothing of the record completes here, the others go on to
\* their load.
PollLoadByteCnt ==
    /\ rpc = "len"
    /\ LET w == [wc EXCEPT !.byte_len = be32toh(ConsCqe.byte_cnt)]
           op == SwitchOpcode(r_opcode, ConsCqe)
       IN  IF ~SwitchHasCase(op)
           THEN wc' = w /\ rpc' = "idle" /\ r_ret' = 0
           ELSE IF op = MLX5_CQE_REQ
           THEN wc' = w /\ rpc' = "sub" /\ r_ret' = r_ret
           ELSE IF op \in {MLX5_CQE_RESP_SEND_IMM, MLX5_CQE_RESP_WR_IMM}
           THEN wc' = w /\ rpc' = "imm" /\ r_ret' = r_ret
           ELSE wc' = SwitchWc(op, w, ConsCqe) /\ rpc' = "publish" /\ r_ret' = r_ret
    /\ UNCHANGED <<cq_cons_index, r_opcode, r_owner, r_expected, r_sop, r_start, dbrec>>

\* case MLX5_CQE_REQ: switch (be32toh(cqe64->sop_drop_qpn) >> 24).  The
\* record is not volatile and hardware may write it meanwhile: the build
\* either loads the field again here or uses the value loaded for qp_num.
\* A sub-code whose case has no comparison for the flag (RDMA_READ, default)
\* completes the switch here.
PollLoadSubCode ==
    /\ rpc = "sub"
    /\ \E s \in {r_sop, ConsCqe.sop_drop_qpn} :
          /\ r_sop' = s
          /\ IF Shr24(be32toh(s)) \in
                   {MLX5_OPCODE_RDMA_WRITE, MLX5_OPCODE_RDMA_WRITE_IMM,
                    MLX5_OPCODE_SEND, MLX5_OPCODE_SEND_IMM, MLX5_OPCODE_SEND_INVAL}
             THEN wc' = wc /\ rpc' = "flag"
             ELSE /\ wc' = SwitchWc(MLX5_CQE_REQ, wc, [ConsCqe EXCEPT !.sop_drop_qpn = s])
                  /\ rpc' = "publish"
    /\ UNCHANGED <<cq_cons_index, r_opcode, r_owner, r_expected, r_ret,
                   r_start, dbrec>>

\* if ((be32toh(cqe64->sop_drop_qpn) >> 24) == ..._IMM) inside the case:
\* again a new load or the value the switch used; then wc->opcode,
\* wc->wc_flags and wc->status are set.
PollLoadFlag ==
    /\ rpc = "flag"
    /\ \E f \in {r_sop, ConsCqe.sop_drop_qpn} :
          wc' = [ReqWc(wc, r_sop, f) EXCEPT !.status = "IBV_WC_SUCCESS"]
    /\ rpc' = "publish"
    /\ UNCHANGED <<cq_cons_index, r_opcode, r_owner, r_expected, r_sop, r_ret,
                   r_start, dbrec>>

\* The cases with immediate data: wc->imm_data = be32toh(cqe64->imm_inval_pkey).
PollLoadImm ==
    /\ rpc = "imm"
    /\ wc' = SwitchWc(SwitchOpcode(r_opcode, ConsCqe), wc, ConsCqe)
    /\ rpc' = "publish"
    /\ UNCHANGED <<cq_cons_index, r_opcode, r_owner, r_expected, r_sop, r_ret,
                   r_start, dbrec>>

\* Steps 8 and 9: cq_cons_index++, the doorbell record, return 1.
PollPublish ==
    /\ rpc = "publish"
    /\ cq_cons_index' = Add32(cq_cons_index, U32(1))
    /\ dbrec' = DoorbellValue(Add32(cq_cons_index, U32(1)))
    /\ rpc' = "idle"
    /\ r_ret' = 1
    /\ UNCHANGED <<r_opcode, r_owner, r_expected, r_sop, wc, r_start>>

\* One step of a manual_poll_cq call in progress.
manual_poll_cq ==
    \/ PollLoadOpcode
    \/ PollCheckOwner
    \/ PollDecode
    \/ PollLoadByteCnt
    \/ PollLoadSubCode
    \/ PollLoadFlag
    \/ PollLoadImm
    \/ PollPublish

(***************************************************************************)
(* Send descriptor: control, remote-address and data segment, 16 bytes     *)
(* each, as local_write builds them.                                       *)
(***************************************************************************)
MAX_POLL_CQ_TIMEOUT == 5000

MLX5_WQE_CTRL_CQ_UPDATE == 8
MLX5_WQE_CTRL_SOLICITED == 2

\* sizeof of the three segment structures.
SizeofCtrlSeg == 16
SizeofRaddrSeg == 16
SizeofDataSeg == 16

\* mlx5dv_qp.bf.size of a device with blueflame.
BfSize == 256

\* The send ring sizes the queue may have been created with, and the
\* completion ring sizes that go with them.
WqeCnts == {1, 2}
SendCqeCnts == {1, 2}

\* res->buf (a uint64_t as four 16-bit words, most significant first) and
\* the keys of the memory region, as in the sample run.
BufAddr == << 0, 0, 8692, 37040 >>
MrLkey == << 31, 61615 >>
MrRkey == << 31, 61615 >>

\* x + n for a uint64_t x and a small n.
Add64(x, n) ==
    LET w4 == x[4] + n
        w3 == x[3] + (w4 \div Pow2_16)
        w2 == x[2] + (w3 \div Pow2_16)
        w1 == x[1] + (w2 \div Pow2_16)
    IN  << w1 % Pow2_16, w2 % Pow2_16, w3 % Pow2_16, w4 % Pow2_16 >>

\* htobe64: the eight bytes, in address order, of the stored value.
htobe64(x) == htobe32(<< x[1], x[2] >>) \o htobe32(<< x[3], x[4] >>)

\* ((uint32_t)opmod << 24) | ((uint32_t)pi << 8) | opcode
OpmodIdxOpcode(opmod, pi, opcode) ==
    << ((opmod % 256) * 256) + (pi \div 256), ((pi % 256) * 256) + opcode >>

\* (qp_num << 8) | ds
QpnDs(qp_num, ds) ==
    << (qp_num \div 256) % Pow2_16, ((qp_num % 256) * 256) + ds >>

mlx5dv_set_ctrl_seg(pi, opcode, opmod, qp_num, fm_ce_se, ds, signature, imm) ==
    [opmod_idx_opcode |-> htobe32(OpmodIdxOpcode(opmod, pi, opcode)),
     qpn_ds |-> htobe32(QpnDs(qp_num, ds)),
     signature |-> signature,
     fm_ce_se |-> fm_ce_se,
     imm |-> htobe32(imm)]

mlx5dv_set_data_seg(length, lkey, address) ==
    [byte_count |-> htobe32(length),
     lkey |-> htobe32(lkey),
     addr |-> htobe64(address)]

\* raddr->raddr, raddr->rkey, raddr->reserved
SetRaddrSeg(remote_addr, rkey) ==
    [raddr |-> htobe64(remote_addr), rkey |-> htobe32(rkey), reserved |-> 0]

\* A segment of sixteen zero bytes, and a slot never written.
ZeroCtrlSeg == mlx5dv_set_ctrl_seg(0, 0, 0, 0, 0, 0, 0, U32(0))
ZeroRaddrSeg == SetRaddrSeg(<< 0, 0, 0, 0 >>, U32(0))
ZeroDataSeg == mlx5dv_set_data_seg(U32(0), U32(0), << 0, 0, 0, 0 >>)
ZeroWqe == [ctrl |-> ZeroCtrlSeg, raddr |-> ZeroRaddrSeg, data |-> ZeroDataSeg]

\* The first eight bytes of a control segment.
First8(ctrl) == ctrl.opmod_idx_opcode \o ctrl.qpn_ds

(***************************************************************************)
(* local_write                                                             *)
(***************************************************************************)
\* Mutant: the slot masked with wqe_cnt instead of taken modulo wqe_cnt.
WqeIdxMaskCnt(post, cnt) == ToNat(And32(post, U32(cnt))) % cnt

\* wqe_idx = res->sq_cur_post % res->mlx5dv_qp.sq.wqe_cnt
WqeIdx(post, cnt) == Mod32(post, cnt)

\* Mutant: the producer index cut to eight bits.
PiLow8(post) == post[2] % 256

\* pi = res->sq_cur_post & 0xffff
Pi(post) == ToNat(And32(post, Mask16))

\* Mutant: the size of the control and remote-address segments only.
DsTwoSegments == (SizeofCtrlSeg + SizeofRaddrSeg) \div 16

\* ds = (sizeof(ctrl) + sizeof(raddr) + sizeof(data)) / 16
Ds == (SizeofCtrlSeg + SizeofRaddrSeg + SizeofDataSeg) \div 16

\* Mutant: the descriptor carries the solicited flag and does not ask for a
\* completion.
FmCeSeSolicited == MLX5_WQE_CTRL_SOLICITED

\* fm_ce_se = MLX5_WQE_CTRL_CQ_UPDATE
FmCeSe == MLX5_WQE_CTRL_CQ_UPDATE

\* The three segments local_write builds when sq_cur_post is post.
CtrlSegOf(post) ==
    mlx5dv_set_ctrl_seg(Pi(post), MLX5_OPCODE_RDMA_WRITE, 0, QpNum, FmCeSe,
                        Ds, 0, U32(0))
RaddrSegOf(post) == SetRaddrSeg(Add64(BufAddr, 4), MrRkey)
DataSegOf(post) == mlx5dv_set_data_seg(U32(4), MrLkey, BufAddr)
WqeOf(post) ==
    [ctrl |-> CtrlSegOf(post), raddr |-> RaddrSegOf(post), data |-> DataSegOf(post)]

\* A store of the processor to a segment of a slot enters the store buffer
\* (a later store to the same place replaces a pending one).
Store(slot, seg, val) ==
    sbuf' = {st \in sbuf : ~(st.slot = slot /\ st.seg = seg)}
               \cup {[slot |-> slot, seg |-> seg, val |-> val]}

\* What the processor reads back from a segment: its own pending store, if
\* any, else memory.
CpuRead(slot, seg) ==
    IF \E st \in sbuf : st.slot = slot /\ st.seg = seg
    THEN (CHOOSE st \in sbuf : st.slot = slot /\ st.seg = seg).val
    ELSE sq[slot][seg]

\* Mutant: the barrier does not wait for the pending stores.
BarrierNoWait(pending) == TRUE

\* __sync_synchronize(): passed once every earlier store is visible.
BarrierDone(pending) == pending = {}

\* Mutant: the offset advanced by addition.
NextBfOffsetAdd(offset, size) == Add32(offset, U32(size))

\* res->bf_offset ^= res->mlx5dv_qp.bf.size
NextBfOffset(offset, size) == Xor32(offset, U32(size))

\* Mutant: the post counter advanced by two.
NextPostTwo(post) == Add32(post, U32(2))

\* res->sq_cur_post++
NextPost(post) == Add32(post, U32(1))

\* Descriptors posted whose completion the reader has not consumed (none
\* when the reader has consumed more records than descriptors were posted).
SqOutstanding ==
    LET d == Sub32(sq_cur_post, cq_cons_index) IN
    IF d[1] >= 32768 THEN 0 ELSE ToNat(d)

\* A caller calls local_write.
CallLocalWrite ==
    /\ mpc = "loop"
    /\ lpc = "idle"
    /\ rpc = "idle"
    /\ ToNat(sq_cur_post) < MaxPosts
    /\ lpc' = "bfcheck"
    /\ l_start' = [full |-> SqOutstanding >= wqe_cnt, sq |-> sq,
                   ntrig |-> Len(trig), post |-> sq_cur_post, off |-> bf_offset]
    /\ UNCHANGED <<sq_cur_post, bf_offset, l_ret, trig, waitVars, sqMemVars>>

\* if (!bf.reg || bf.size == 0) return -1;
LwCheckBlueflame ==
    /\ lpc = "bfcheck"
    /\ IF ~bf_reg \/ bf_size = 0
       THEN lpc' = "idle" /\ l_ret' = -1
       ELSE lpc' = "ctrl" /\ l_ret' = l_ret
    /\ UNCHANGED <<sq_cur_post, bf_offset, l_start, trig, waitVars, sqMemVars>>

\* mlx5dv_set_ctrl_seg(ctrl, pi, opcode, 0, qp_num, fm_ce_se, ds, 0, 0)
LwSetCtrlSeg ==
    /\ lpc = "ctrl"
    /\ Store(WqeIdx(sq_cur_post, wqe_cnt), "ctrl", CtrlSegOf(sq_cur_post))
    /\ lpc' = "raddr"
    /\ UNCHANGED <<sq_cur_post, bf_offset, l_ret, l_start, trig, waitVars, sq>>

\* raddr->raddr, raddr->rkey, raddr->reserved
LwSetRaddrSeg ==
    /\ lpc = "raddr"
    /\ Store(WqeIdx(sq_cur_post, wqe_cnt), "raddr", RaddrSegOf(sq_cur_post))
    /\ lpc' = "data"
    /\ UNCHANGED <<sq_cur_post, bf_offset, l_ret, l_start, trig, waitVars, sq>>

\* mlx5dv_set_data_seg(data, data_length, lkey, data_addr)
LwSetDataSeg ==
    /\ lpc = "data"
    /\ Store(WqeIdx(sq_cur_post, wqe_cnt), "data", DataSegOf(sq_cur_post))
    /\ lpc' = "barrier"
    /\ UNCHANGED <<sq_cur_post, bf_offset, l_ret, l_start, trig, waitVars, sq>>

\* The memory system makes one pending store visible to hardware.
SbDrain ==
    /\ \E st \in sbuf :
          /\ sq' = [sq EXCEPT ![st.slot][st.seg] = st.val]
          /\ sbuf' = sbuf \ {st}
    /\ UNCHANGED <<posterVars, waitVars>>

\* __sync_synchronize()
LwBarrier ==
    /\ lpc = "barrier"
    /\ BarrierDone(sbuf)
    /\ lpc' = "trigger"
    /\ UNCHANGED <<sq_cur_post, bf_offset, l_ret, l_start, trig, waitVars, sqMemVars>>

\* *((volatile uint64_t *)bf_addr) = *(uint64_t *)ctrl
LwTrigger ==
    /\ lpc = "trigger"
    /\ trig' = Append(trig,
                 [offset |-> bf_offset, post |-> sq_cur_post,
                  value |-> First8(CpuRead(WqeIdx(sq_cur_post, wqe_cnt), "ctrl"))])
    /\ lpc' = "advance"
    /\ UNCHANGED <<sq_cur_post, bf_offset, l_ret, l_start, waitVars, sqMemVars>>

\* res->sq_cur_post++; res->bf_offset ^= bf.size; then poll_completion(res)
\* is entered and takes start_time_msec.
LwAdvance ==
    /\ lpc = "advance"
    /\ sq_cur_post' = NextPost(sq_cur_post)
    /\ bf_offset' = NextBfOffset(bf_offset, bf_size)
    /\ lpc' = "wait"
    /\ ppc' = "call"
    /\ elapsed' = 0
    /\ UNCHANGED <<l_ret, l_start, trig, p_rc, sqMemVars>>

(***************************************************************************)
(* poll_completion                                                         *)
(***************************************************************************)
\* poll_result = manual_poll_cq(res, &wc)
PcCall ==
    /\ ppc = "call"
    /\ rpc = "idle"
    /\ rpc' = "opcode"
    /\ ppc' = "polling"
    /\ UNCHANGED <<cq_cons_index, r_opcode, r_owner, r_expected, r_sop, wc, r_ret, r_start>>
    /\ UNCHANGED <<p_rc, elapsed, posterVars, sqMemVars>>

\* Mutant: a timeout is not reported as a failure.
PollRcIgnoreTimeout(poll_result, w) ==
    IF poll_result < 0 THEN 1
    ELSE IF poll_result = 0 THEN 0
    ELSE IF w.status # "IBV_WC_SUCCESS" THEN 1
    ELSE 0

\* rc of poll_completion for the result of the last manual_poll_cq call.
PollRc(poll_result, w) ==
    IF poll_result < 0 THEN 1
    ELSE IF poll_result = 0 THEN 1
    ELSE IF w.status # "IBV_WC_SUCCESS" THEN 1
    ELSE 0

\* Mutant: the loop condition without the clock.
KeepPollingNoTimeout(poll_result, el) == poll_result = 0

\* while ((poll_result == 0) && ((cur_time_msec - start_time_msec) < MAX_POLL_CQ_TIMEOUT))
KeepPolling(poll_result, el) == poll_result = 0 /\ el < MAX_POLL_CQ_TIMEOUT

\* Mutant: the loop condition step also flips the trigger offset.
PcCheckFlipOffset ==
    /\ ppc = "polling"
    /\ rpc = "idle"
    /\ IF KeepPolling(r_ret, elapsed)
       THEN ppc' = "call" /\ p_rc' = p_rc
       ELSE ppc' = "ret" /\ p_rc' = PollRc(r_ret, wc)
    /\ bf_offset' = NextBfOffset(bf_offset, bf_size)
    /\ UNCHANGED <<elapsed, sq_cur_post, lpc, l_ret, l_start, trig, sqMemVars>>

\* The loop condition after manual_poll_cq returned and the clock was read;
\* when it fails, rc is set and poll_completion returns.
PcCheck ==
    /\ ppc = "polling"
    /\ rpc = "idle"
    /\ IF KeepPolling(r_ret, elapsed)
       THEN ppc' = "call" /\ p_rc' = p_rc
       ELSE ppc' = "ret" /\ p_rc' = PollRc(r_ret, wc)
    /\ UNCHANGED <<elapsed, posterVars, sqMemVars>>

\* if (poll_completion(res)) return -1; ... return 0;
LwReturn ==
    /\ lpc = "wait"
    /\ ppc = "ret"
    /\ l_ret' = IF p_rc # 0 THEN -1 ELSE 0
    /\ lpc' = "idle"
    /\ ppc' = "idle"
    /\ UNCHANGED <<sq_cur_post, bf_offset, l_start, trig, p_rc, elapsed, sqMemVars>>

\* Time passes while poll_completion runs.
Tick ==
    /\ ppc # "idle"
    /\ elapsed < MAX_POLL_CQ_TIMEOUT
    /\ elapsed' = elapsed + TickMs
    /\ UNCHANGED <<ppc, p_rc, posterVars, sqMemVars>>

\* resources_create: if (!bf.reg || bf.size == 0) { rc = 1; goto
\* resources_create_exit; }, and main goes to main_exit on its return of 1
\* without entering the loop.
CreateFailed == ~bf_reg \/ bf_size = 0

\* The send side as resources_create leaves it, and main's position after it.
InitSend ==
    /\ sq = [s \in 0 .. (wqe_cnt - 1) |-> ZeroWqe]
    /\ sbuf = {}
    /\ sq_cur_post = U32(0)
    /\ bf_offset = U32(0)
    /\ lpc = "idle"
    /\ l_ret = 0
    /\ l_start = [full |-> FALSE, sq |-> sq, ntrig |-> 0, post |-> U32(0),
                  off |-> U32(0)]
    /\ ppc = "idle"
    /\ p_rc = 0
    /\ elapsed = 0
    /\ trig = << >>
    /\ hwSqCons = 0
    /\ hwStage = "idle"
    /\ hwWqe = ZeroWqe
    /\ hwQpErr = FALSE
    /\ lastFetch = [post |-> U32(0), wqe |-> ZeroWqe, fresh |-> FALSE]
    /\ mpc = IF CreateFailed THEN "exit" ELSE "loop"
    /\ m_rc = 1

(***************************************************************************)
(* Hardware, completion side.  Record n goes to slot n mod cqe_cnt with    *)
(* ownership !!(n & cqe_cnt); its payload is written first and the byte    *)
(* holding opcode and ownership last.                                      *)
(***************************************************************************)
HwOwner(n) == IF And32(n, U32(cqe_cnt)) # U32(0) THEN 1 ELSE 0

HwSlot(n) == Mod32(n, cqe_cnt)

\* Records written and not yet released by the published consumer index.
CqOutstanding == ToNat(And32(Sub32(hwProd, be32toh(dbrec)), Mask24))

HwMayWrite == CqOutstanding < cqe_cnt


\* The sub-codes the synthetic records carry in the high byte of sop_drop_qpn
\* (the last one is a sub-code the REQ switch has no case for).
SynthSubCodes ==
    << MLX5_OPCODE_RDMA_WRITE, MLX5_OPCODE_SEND_IMM, MLX5_OPCODE_RDMA_READ,
       MLX5_OPCODE_RDMA_WRITE_IMM, MLX5_OPCODE_SEND, MLX5_OPCODE_SEND_INVAL, 0 >>

\* The byte count that identifies synthetic record n.
Tag(n) == Add32(n, U32(1))

\* The immediate value synthetic record n carries.
SynthImm(n) == Add32(n, U32(256))

\* Payload of synthetic record n.
SynthPayload(n) ==
    [sop_drop_qpn |-> htobe32(<< (SynthSubCodes[Mod32(n, Len(SynthSubCodes)) + 1] * 256) + (QpNum \div Pow2_16),
                                 QpNum % Pow2_16 >>),
     byte_cnt |-> htobe32(Tag(n)),
     imm_inval_pkey |-> htobe32(SynthImm(n))]

\* The opcodes the synthetic hardware completes with.
SynthOpcodes ==
    {MLX5_CQE_REQ, MLX5_CQE_RESP_WR_IMM, MLX5_CQE_REQ_ERR, UnknownCqeOpcode}

WritePayload(slot, pl) ==
    cq' = [cq EXCEPT ![slot] =
              [@ EXCEPT !.sop_drop_qpn = pl.sop_drop_qpn,
                        !.byte_cnt = pl.byte_cnt,
                        !.imm_inval_pkey = pl.imm_inval_pkey]]

\* Hardware starts record hwProd: the payload, while the slot is free.
HwWritePayload ==
    /\ ~hwBusy
    /\ ToNat(hwProd) < MaxRecords
    /\ HwMayWrite
    /\ WritePayload(HwSlot(hwProd), SynthPayload(hwProd))
    /\ hwBusy' = TRUE
    /\ UNCHANGED <<hwProd, hwOverrun>>

\* Hardware that ignores overrun starts record hwProd on a slot whose record
\* the published consumer index has not passed.
HwOverrunPayload ==
    /\ ~hwBusy
    /\ ToNat(hwProd) < MaxRecords
    /\ ~HwMayWrite
    /\ WritePayload(HwSlot(hwProd), SynthPayload(hwProd))
    /\ hwBusy' = TRUE
    /\ hwOverrun' = TRUE
    /\ UNCHANGED hwProd

\* Hardware finishes record hwProd: the byte with opcode and ownership.
HwWriteOpOwn ==
    /\ hwBusy
    /\ \E op \in SynthOpcodes :
          cq' = [cq EXCEPT ![HwSlot(hwProd)].op_own = OpOwn(op, HwOwner(hwProd))]
    /\ hwProd' = Add32(hwProd, U32(1))
    /\ hwBusy' = FALSE
    /\ UNCHANGED hwOverrun

\* The caller of SpecRing: a reader that calls manual_poll_cq again and again.
RingCall ==
    /\ rpc = "idle"
    /\ lpc = "idle"
    /\ rpc' = "opcode"
    /\ UNCHANGED <<cq_cons_index, r_opcode, r_owner, r_expected, r_sop, wc, r_ret, r_start>>

InitRing ==
    /\ cqe_cnt \in CqeCnts
    /\ cq = [s \in CqSlots |-> EmptyCqe]
    /\ dbrec = htobe32(U32(0))
    /\ cq_cons_index = U32(0)
    /\ rpc = "idle"
    /\ r_opcode = 0
    /\ r_owner = 0
    /\ r_expected = 0
    /\ r_sop = htobe32(U32(0))
    /\ wc = ZeroWc
    /\ r_ret = 0
    /\ r_start = [idx |-> U32(0), db |-> htobe32(U32(0)), written |-> U32(0)]
    /\ hwProd = U32(0)
    /\ hwBusy = FALSE
    /\ hwOverrun = FALSE
    /\ wqe_cnt = 1
    /\ bf_reg = TRUE
    /\ bf_size = BfSize
    /\ InitSend

NextRing ==
    \/ RingCall /\ UNCHANGED <<cfgVars, mainVars, cq, dbrec, cqHwVars, sendVars>>
    \/ manual_poll_cq /\ UNCHANGED <<cfgVars, mainVars, cq, cqHwVars, sendVars>>
    \/ HwWritePayload /\ UNCHANGED <<cfgVars, mainVars, dbrec, readerVars, sendVars>>
    \/ HwWriteOpOwn /\ UNCHANGED <<cfgVars, mainVars, dbrec, readerVars, sendVars>>

NextOverrun ==
    \/ NextRing
    \/ HwOverrunPayload /\ UNCHANGED <<cfgVars, mainVars, dbrec, readerVars, sendVars>>

\* The reader against flow-controlled synthetic hardware.
SpecRing == InitRing /\ [][NextRing]_vars

\* The same with hardware that may also overrun the ring.
SpecOverrun == InitRing /\ [][NextOverrun]_vars


(***************************************************************************)
(* Properties of the reader against synthetic hardware (SpecRing).         *)
(***************************************************************************)
\* The last call of manual_poll_cq has returned and no new one has begun.
Returned == rpc = "idle"

\* Record number r_start.idx was completely written when the call loaded the
\* opcode.
WrittenAtLoad == ToNat(r_start.written) > ToNat(r_start.idx)

\* The slot the last call looked at.
StartSlot == cq[CqeIdx(r_start.idx, cqe_cnt)]

\* C1: against flow-controlled hardware the k-th successful call returns
\* record k (FIFO, nothing skipped, nothing twice) and advances the index by
\* exactly 1, a call that returns 0 leaves the index alone, the expected
\* ownership used is the lap parity floor(index / cqe_cnt) mod 2, and a call
\* made when the record of its index was already written with an opcode of
\* the known set does consume it.
C1_FifoConsumption ==
    /\ (Returned /\ r_ret = 1) =>
          /\ cq_cons_index = Add32(r_start.idx, U32(1))
          /\ wc.byte_len = Tag(r_start.idx)
    /\ (Returned /\ r_ret = 0) => cq_cons_index = r_start.idx
    /\ rpc \in {"decode", "len", "sub", "flag", "imm", "publish"} =>
          /\ r_start.idx = cq_cons_index
          /\ r_expected = (ToNat(cq_cons_index) \div cqe_cnt) % 2
          /\ ConsCqe.byte_cnt = htobe32(Tag(cq_cons_index))
    /\ (Returned /\ r_ret = 0 /\ WrittenAtLoad) =>
          mlx5dv_get_cqe_opcode(StartSlot) \notin KnownCqeOpcodes

\* C1 witness: with two slots all five records were consumed, the last one
\* on the third lap.
C1_Witness ==
    /\ cqe_cnt = 2
    /\ Returned /\ r_ret = 1
    /\ ToNat(cq_cons_index) = 5
    /\ wc.byte_len = U32(5)

\* C2: a slot is consumed only when hardware has written it for the current
\* lap: past the ownership check the slot holds the record whose number is
\* cq_cons_index, and cq_cons_index never exceeds the records written.
C2_ConsumeOnlyWritten ==
    /\ ToNat(cq_cons_index) <= ToNat(hwProd)
    /\ rpc \in {"decode", "len", "sub", "flag", "imm", "publish"} =>
          /\ ToNat(hwProd) > ToNat(cq_cons_index)
          /\ ConsCqe.byte_cnt = htobe32(Tag(cq_cons_index))
          /\ mlx5dv_get_cqe_owner(ConsCqe) = HwOwner(cq_cons_index)

\* C2 witness: a call on the second lap returned 0 at the ownership check on
\* a slot that still held the consumed record of the lap before.
C2_Witness ==
    /\ Returned /\ r_ret = 0
    /\ ToNat(cq_cons_index) >= cqe_cnt
    /\ cq_cons_index = hwProd
    /\ r_opcode \in KnownCqeOpcodes
    /\ r_owner # r_expected
    /\ r_start.idx = cq_cons_index


\* The last call, made at an index below 5 of a ring of four slots, found at
\* its slot a record with an opcode of the known set.
C3_Call ==
    /\ cqe_cnt = 4
    /\ Returned
    /\ ToNat(r_start.idx) <= 4
    /\ r_opcode \in KnownCqeOpcodes
    /\ mlx5dv_get_cqe_opcode(StartSlot) \in KnownCqeOpcodes

\* The call consumed the record of its index: records 0..3 with expected
\* ownership 0, record 4 (in slot 0) with expected ownership 1.
C3_Consumed ==
    /\ r_ret = 1
    /\ cq_cons_index = Add32(r_start.idx, U32(1))
    /\ wc.byte_len = Tag(r_start.idx)
    /\ r_expected = (IF ToNat(r_start.idx) = 4 THEN 1 ELSE 0)

\* C3 as stated: once hardware has written the records 0..4 (the fifth over
\* slot 0), a reader at the index of its consumptions so far, from index 0
\* on, consumes the record of that index.
C3_Original ==
    (C3_Call /\ ToNat(r_start.written) = 5) => C3_Consumed

\* C3 amended: the same for hardware that writes record 4 only after the
\* reader has consumed record 0 and published it (the order of the worked
\* example in the source): each call made once the record of its index is
\* written consumes it, the call at index 4 with expected ownership 1 and the
\* second-lap content of slot 0.
C3_WorkedExample ==
    (C3_Call /\ ~hwOverrun /\ WrittenAtLoad) => C3_Consumed

\* C3 witness: the call at index 4 consumed slot 0 with expected ownership 1
\* and returned the content of record 4.
C3_Witness ==
    /\ C3_Call /\ ~hwOverrun /\ WrittenAtLoad
    /\ ToNat(r_start.idx) = 4
    /\ r_ret = 1
    /\ r_expected = 1
    /\ wc.byte_len = U32(5)
    /\ ToNat(hwProd) = 5

\* C4: the completion a call returns comes entirely from the one hardware
\* write whose ownership bit matched: it is the classification of the record
\* in the slot, by that record's own opcode.
C4_OneWrite ==
    rpc = "publish" =>
        wc = ClassifyWc(mlx5dv_get_cqe_opcode(ConsCqe), ConsCqe)

\* C8: a call that found the INVALID opcode, or an ownership bit other than
\* the expected one, returned 0 with cq_cons_index and the doorbell record
\* as they were.
C8_EmptyState ==
    (Returned /\ (r_opcode = MLX5_CQE_INVALID \/ r_owner # r_expected)) =>
        /\ r_ret = 0
        /\ cq_cons_index = r_start.idx
        /\ dbrec = r_start.db

\* A step of a call that finds at the slot what the call before found (the
\* INVALID opcode, or the same mismatching ownership bit) ends the call with
\* 0 again and changes neither index, doorbell record nor wc.
C8_Repeat ==
    /\ (rpc = "opcode" /\ rpc' # "opcode"
          /\ r_ret = 0 /\ r_opcode = MLX5_CQE_INVALID
          /\ r_opcode' = MLX5_CQE_INVALID) =>
          (rpc' = "idle" /\ r_ret' = 0
             /\ UNCHANGED <<cq_cons_index, dbrec, wc>>)
    /\ (rpc = "own" /\ rpc' # "own"
          /\ r_ret = 0 /\ r_owner # r_expected
          /\ r_owner' = r_owner /\ r_expected' = r_expected) =>
          (rpc' = "idle" /\ r_ret' = 0
             /\ UNCHANGED <<cq_cons_index, dbrec, wc>>)

\* C8: both parts, for every call of every behaviour.
C8_EmptyPoll == []C8_EmptyState /\ [][C8_Repeat]_vars

\* C8 witness: an empty slot polled, and a stale slot of the lap before
\* polled, each returning 0.
C8_Witness ==
    /\ Returned /\ r_ret = 0
    /\ r_opcode # MLX5_CQE_INVALID
    /\ r_owner # r_expected
    /\ ToNat(cq_cons_index) >= 1
    /\ dbrec = htobe32(cq_cons_index)

\* C10: a call made when the record of its index was written, that found an
\* opcode outside the known set with the matching ownership bit, returned 0
\* with cq_cons_index and the doorbell record as they were.
C10_UnknownOpcode ==
    (Returned /\ WrittenAtLoad /\ r_opcode \notin KnownCqeOpcodes) =>
        /\ r_opcode = UnknownCqeOpcode
        /\ r_owner = r_expected
        /\ r_ret = 0
        /\ cq_cons_index = r_start.idx
        /\ dbrec = r_start.db

\* C10 witness: such a call on the second lap.
C10_Witness ==
    /\ Returned /\ WrittenAtLoad
    /\ r_opcode = UnknownCqeOpcode
    /\ r_owner = r_expected
    /\ r_ret = 0
    /\ ToNat(cq_cons_index) >= cqe_cnt

(***************************************************************************)
(* Hardware, send side.  Hardware acts on the trigger writes in order: it  *)
(* reads the descriptor the trigger designates, and, when the descriptor   *)
(* asks for one, writes a completion record for it.                        *)
(***************************************************************************)
\* The producer index carried by the eight trigger bytes.
TrigPi(value) ==
    LET w == be32toh(SubSeq(value, 1, 4)) IN ((w[1] % 256) * 256) + (w[2] \div 256)

\* The send ring slot a trigger designates.
HwSqSlot(value) == TrigPi(value) % wqe_cnt

\* Host value of the first and second word of a control segment.
CtrlOpcode(ctrl) == be32toh(ctrl.opmod_idx_opcode)[2] % 256
CtrlQpn(ctrl) ==
    LET w == be32toh(ctrl.qpn_ds) IN << w[1] \div 256, ((w[1] % 256) * 256) + (w[2] \div 256) >>

\* Whether the descriptor asks for a completion record.
WantsCqe(wqe) == BitAnd(wqe.ctrl.fm_ce_se, MLX5_WQE_CTRL_CQ_UPDATE) # 0

\* Posts whose segment stores have begun.
PostsStarted ==
    ToNat(sq_cur_post)
      + (IF lpc \in {"raddr", "data", "barrier", "trigger", "advance"} THEN 1 ELSE 0)

\* No later post has begun to build in the slot of post n.
NotReused(n) == n + wqe_cnt >= PostsStarted

\* Payload of the requester completion for a descriptor.
SendPayload(wqe) ==
    [sop_drop_qpn |-> htobe32(<< (CtrlOpcode(wqe.ctrl) * 256) + CtrlQpn(wqe.ctrl)[1],
                                 CtrlQpn(wqe.ctrl)[2] >>),
     byte_cnt |-> wqe.data.byte_count,
     imm_inval_pkey |-> htobe32(U32(0))]

\* The opcodes a requester completion may carry.
SendCqeOpcodes == {MLX5_CQE_REQ, MLX5_CQE_REQ_ERR}

\* Hardware observes the next trigger write and reads the descriptor.
HwFetch ==
    /\ hwStage = "idle"
    /\ hwSqCons < Len(trig)
    /\ LET t == trig[hwSqCons + 1] IN
          /\ hwWqe' = sq[HwSqSlot(t.value)]
          /\ lastFetch' = [post |-> t.post, wqe |-> sq[HwSqSlot(t.value)],
                           fresh |-> NotReused(hwSqCons)]
    /\ hwSqCons' = hwSqCons + 1
    /\ hwStage' = "fetched"
    /\ UNCHANGED hwQpErr

\* Hardware has carried the descriptor out: the payload of its completion
\* record, while the slot is free, or nothing when none was asked for.
HwComplete ==
    /\ hwStage = "fetched"
    /\ IF WantsCqe(hwWqe)
       THEN /\ ~hwBusy
            /\ HwMayWrite
            /\ WritePayload(HwSlot(hwProd), SendPayload(hwWqe))
            /\ hwBusy' = TRUE
            /\ hwStage' = "cqe"
       ELSE /\ hwStage' = "idle"
            /\ UNCHANGED <<cq, hwBusy>>
    /\ UNCHANGED <<hwProd, hwOverrun, hwSqCons, hwWqe, hwQpErr, lastFetch>>

\* Hardware finishes the completion record: opcode and ownership.  A
\* request may fail; the failure puts the queue pair in the error state, in
\* which every later request fails too.
HwCqeOpOwn ==
    /\ hwStage = "cqe"
    /\ hwBusy
    /\ \E op \in (IF hwQpErr THEN {MLX5_CQE_REQ_ERR} ELSE SendCqeOpcodes) :
          /\ cq' = [cq EXCEPT ![HwSlot(hwProd)].op_own = OpOwn(op, HwOwner(hwProd))]
          /\ hwQpErr' = (op = MLX5_CQE_REQ_ERR)
    /\ hwProd' = Add32(hwProd, U32(1))
    /\ hwBusy' = FALSE
    /\ hwStage' = "idle"
    /\ UNCHANGED <<hwOverrun, hwSqCons, hwWqe, lastFetch>>

(***************************************************************************)
(* The program with a caller that may call local_write again whatever the  *)
(* last call returned, and may call manual_poll_cq itself.                 *)
(***************************************************************************)
Init ==
    /\ cqe_cnt \in SendCqeCnts
    /\ wqe_cnt \in WqeCnts
    /\ bf_reg \in BOOLEAN
    /\ bf_size \in {0, BfSize}
    /\ cq = [s \in CqSlots |-> EmptyCqe]
    /\ dbrec = htobe32(U32(0))
    /\ cq_cons_index = U32(0)
    /\ rpc = "idle"
    /\ r_opcode = 0
    /\ r_owner = 0
    /\ r_expected = 0
    /\ r_sop = htobe32(U32(0))
    /\ wc = ZeroWc
    /\ r_ret = 0
    /\ r_start = [idx |-> U32(0), db |-> htobe32(U32(0)), written |-> U32(0)]
    /\ hwProd = U32(0)
    /\ hwBusy = FALSE
    /\ hwOverrun = FALSE
    /\ InitSend

readerFrame == UNCHANGED <<cfgVars, mainVars, cq, dbrec, readerVars, cqHwVars>>

\* A caller decides to post.
Caller == CallLocalWrite /\ readerFrame /\ UNCHANGED sqHwVars

\* A step of the program once called, or of its reader.
Running ==
    \/ LwCheckBlueflame /\ readerFrame /\ UNCHANGED sqHwVars
    \/ LwSetCtrlSeg /\ readerFrame /\ UNCHANGED sqHwVars
    \/ LwSetRaddrSeg /\ readerFrame /\ UNCHANGED sqHwVars
    \/ LwSetDataSeg /\ readerFrame /\ UNCHANGED sqHwVars
    \/ LwBarrier /\ readerFrame /\ UNCHANGED sqHwVars
    \/ LwTrigger /\ readerFrame /\ UNCHANGED sqHwVars
    \/ LwAdvance /\ readerFrame /\ UNCHANGED sqHwVars
    \/ PcCall /\ UNCHANGED <<cfgVars, mainVars, cq, dbrec, cqHwVars, sqHwVars>>
    \/ PcCheck /\ readerFrame /\ UNCHANGED sqHwVars
    \/ LwReturn /\ readerFrame /\ UNCHANGED sqHwVars
    \/ RingCall /\ UNCHANGED <<cfgVars, mainVars, cq, dbrec, cqHwVars, sendVars>>
    \/ manual_poll_cq /\ UNCHANGED <<cfgVars, mainVars, cq, cqHwVars, sendVars>>

\* The memory system makes a store visible.
Memory == SbDrain /\ readerFrame /\ UNCHANGED sqHwVars

\* Time passes.
Clock == Tick /\ readerFrame /\ UNCHANGED sqHwVars

\* A step of hardware.
Hardware ==
    \/ HwFetch /\ UNCHANGED <<cfgVars, mainVars, cq, dbrec, readerVars, cqHwVars,
                              posterVars, waitVars, sqMemVars>>
    \/ HwComplete /\ UNCHANGED <<cfgVars, mainVars, dbrec, readerVars,
                                 posterVars, waitVars, sqMemVars>>
    \/ HwCqeOpOwn /\ UNCHANGED <<cfgVars, mainVars, dbrec, readerVars,
                                 posterVars, waitVars, sqMemVars>>

Next == Caller \/ Running \/ Memory \/ Clock \/ Hardware

Spec == Init /\ [][Next]_vars

\* The program that keeps running once called (so its reader keeps calling
\* manual_poll_cq), on a memory system that makes every store visible and
\* fair hardware.  Time may or may not advance, the caller may or may not
\* post again.
FairSpec ==
    /\ Init /\ [][Next]_vars
    /\ WF_vars(Running)
    /\ WF_vars(Memory)
    /\ WF_vars(Hardware)

(***************************************************************************)
(* Properties of the poster.                                               *)
(***************************************************************************)
\* C5: the trigger is written only after the three segments of the slot are
\* visible with this post's values.  Every trigger write carries the first
\* eight bytes of its post's control segment; while hardware has not yet
\* acted on a trigger and no later post has begun to rebuild the slot, the
\* slot as hardware sees it holds the complete descriptor of that post and
\* nothing of it is still pending in the processor; and a descriptor that
\* hardware read before the slot was rebuilt is the complete one.
C5_TriggerAfterDescriptor ==
    /\ \A i \in 1 .. Len(trig) :
          LET t == trig[i]
              slot == WqeIdx(t.post, wqe_cnt)
          IN  /\ t.post = U32(i - 1)
              /\ t.value = First8(CtrlSegOf(t.post))
              /\ (i > hwSqCons /\ NotReused(i - 1)) =>
                    /\ sq[slot] = WqeOf(t.post)
                    /\ t.value = First8(sq[slot].ctrl)
                    /\ HwSqSlot(t.value) = slot
    /\ lastFetch.fresh => lastFetch.wqe = WqeOf(lastFetch.post)

\* C5 witness: hardware read the descriptor of the second post from a slot
\* that held the first post's descriptor before, ahead of any rebuild.
C5_Witness ==
    /\ wqe_cnt = 1
    /\ lastFetch.fresh
    /\ lastFetch.post = U32(1)
    /\ lastFetch.wqe = WqeOf(U32(1))
    /\ lastFetch.wqe # WqeOf(U32(0))

\* C6: under fair hardware and a program that keeps running, every post is
\* followed by its completion record in the completion ring, carrying the
\* queue pair's number, and the reader eventually consumes it.  The record
\* numbered k, while not yet consumed, belongs to post k and carries the
\* queue pair's number; and whenever a post's completion has not been
\* consumed, eventually hardware has written and the reader has consumed
\* the completions of all the posts made (the counters never decrease, so
\* no post stays without its completion).
C6_PostCompletes ==
    /\ [](\A k \in 0 .. (MaxPosts - 1) :
            (ToNat(hwProd) = k + 1 /\ ToNat(cq_cons_index) <= k) =>
               /\ Len(trig) > k
               /\ mlx5dv_get_cqe_owner(cq[HwSlot(U32(k))]) = HwOwner(U32(k))
               /\ mlx5dv_get_cqe_opcode(cq[HwSlot(U32(k))]) \in SendCqeOpcodes
               /\ And32(be32toh(cq[HwSlot(U32(k))].sop_drop_qpn), Mask24) = U32(QpNum))
    /\ (ToNat(cq_cons_index) < Len(trig))
          ~> (ToNat(hwProd) = Len(trig) /\ ToNat(cq_cons_index) = Len(trig))

\* C6 witness: every post made was completed and consumed, the last one
\* reported with the queue pair's number.
C6_Witness ==
    /\ Len(trig) = MaxPosts
    /\ ToNat(hwProd) = MaxPosts
    /\ ToNat(cq_cons_index) = MaxPosts
    /\ rpc = "idle" /\ r_ret = 1
    /\ wc.qp_num = U32(QpNum)

\* C7: bf_offset is 0 or bf.size, equals (sq_cur_post mod 2) * bf.size, the
\* k-th trigger write goes to offset (k mod 2) * bf.size, and consecutive
\* trigger writes go to different offsets, whatever the waits returned.
C7_TriggerAlternation ==
    /\ bf_offset \in {U32(0), U32(bf_size)}
    /\ bf_offset = U32(Mod32(sq_cur_post, 2) * bf_size)
    /\ \A i \in 1 .. Len(trig) : trig[i].offset = U32(((i - 1) % 2) * bf_size)
    /\ \A i \in 1 .. (Len(trig) - 1) : trig[i].offset # trig[i + 1].offset

\* C7 witness: three posts, each wait timed out with hardware still idle,
\* and the offset is bf.size after the third.
C7_Witness ==
    /\ Len(trig) = 3
    /\ hwSqCons = 0
    /\ lpc = "idle" /\ l_ret = -1
    /\ bf_size = BfSize
    /\ bf_offset = U32(BfSize)
    /\ trig[3].offset = U32(0)

\* C9: a call of local_write entered with the send ring full leaves the send
\* ring, the trigger register, sq_cur_post and bf_offset as they were, and
\* fails.
C9_FullRingPostFails ==
    l_start.full =>
       /\ sq = l_start.sq
       /\ sbuf = {}
       /\ Len(trig) = l_start.ntrig
       /\ sq_cur_post = l_start.post
       /\ bf_offset = l_start.off
       /\ (lpc = "idle" => l_ret = -1)

(***************************************************************************)
(* Further properties of the reader against synthetic hardware.            *)
(***************************************************************************)
\* C11: a call that consumed a record it classified as REQ_ERR or RESP_ERR
\* returned a completion marked as failed, with byte_len and imm_data left
\* at zero.
C11_ErrorNotDecoded ==
    (Returned /\ r_ret = 1 /\ r_opcode \in {MLX5_CQE_REQ_ERR, MLX5_CQE_RESP_ERR}) =>
        /\ wc.status = "IBV_WC_GENERAL_ERR"
        /\ wc.byte_len = U32(0)
        /\ wc.imm_data = U32(0)

(***************************************************************************)
(* Properties of poll_completion, as local_write calls it.                 *)
(***************************************************************************)
\* poll_completion is about to return to local_write.
PcReturning == lpc = "wait" /\ ppc = "ret"

\* The work completion of an error-status record.
ErrorWc == [ZeroWc EXCEPT !.status = "IBV_WC_GENERAL_ERR"]

\* C12: poll_completion fails on a timeout and on an error-status record,
\* succeeds exactly when it consumed a record whose status is success, and
\* what it returns on a timeout differs from what it returns on an
\* error-status record.
C12_DistinctFailures ==
    PcReturning =>
        /\ (r_ret = 0 => p_rc # 0)
        /\ ((r_ret = 1 /\ wc.status # "IBV_WC_SUCCESS") => p_rc # 0)
        /\ (p_rc = 0 <=> (r_ret = 1 /\ wc.status = "IBV_WC_SUCCESS"))
        /\ (r_ret = 0 => p_rc # PollRc(1, ErrorWc))

(***************************************************************************)
(* The completion queue is the queue pair's send and receive queue at      *)
(* once (qp_init_attr.send_cq and recv_cq), so a responder completion for  *)
(* a receive, posted as local_receive posts one, lands in the ring that    *)
(* poll_completion reads for local_write.                                  *)
(***************************************************************************)
MaxRecv == 1

\* Completion records written for descriptors of the send queue.
SendCompleted == hwSqCons - (IF hwStage \in {"fetched", "cqe"} THEN 1 ELSE 0)

\* Completion records written for receives.
RecvCompleted == ToNat(hwProd) - SendCompleted

\* Payload of the responder completion of a four-byte receive.
RecvPayload ==
    [sop_drop_qpn |-> htobe32(U32(QpNum)),
     byte_cnt |-> htobe32(U32(4)),
     imm_inval_pkey |-> htobe32(U32(0))]

\* Hardware writes the payload of a responder completion.
HwRecvPayload ==
    /\ hwStage = "idle"
    /\ ~hwBusy
    /\ HwMayWrite
    /\ RecvCompleted < MaxRecv
    /\ WritePayload(HwSlot(hwProd), RecvPayload)
    /\ hwBusy' = TRUE
    /\ hwStage' = "recv"
    /\ UNCHANGED <<hwProd, hwOverrun, hwSqCons, hwWqe, hwQpErr, lastFetch>>

\* Hardware finishes the responder completion: opcode and ownership.
HwRecvOpOwn ==
    /\ hwStage = "recv"
    /\ hwBusy
    /\ cq' = [cq EXCEPT ![HwSlot(hwProd)].op_own =
                            OpOwn(MLX5_CQE_RESP_SEND, HwOwner(hwProd))]
    /\ hwProd' = Add32(hwProd, U32(1))
    /\ hwBusy' = FALSE
    /\ hwStage' = "idle"
    /\ UNCHANGED <<hwOverrun, hwSqCons, hwWqe, hwQpErr, lastFetch>>

HardwareRecv ==
    \/ HwRecvPayload /\ UNCHANGED <<cfgVars, mainVars, dbrec, readerVars,
                                    posterVars, waitVars, sqMemVars>>
    \/ HwRecvOpOwn /\ UNCHANGED <<cfgVars, mainVars, dbrec, readerVars,
                                  posterVars, waitVars, sqMemVars>>

NextRecv == Next \/ HardwareRecv

SpecRecv == Init /\ [][NextRecv]_vars

\* C13: when poll_completion, called by local_write, ends the wait with
\* success, the record it consumed carries the queue pair number and the
\* operation kind of the posted work, an RDMA write.
C13_MatchingRecord ==
    (PcReturning /\ p_rc = 0) =>
        /\ wc.qp_num = U32(QpNum)
        /\ wc.opcode = "IBV_WC_RDMA_WRITE"

\* The program that keeps running once called, with a clock that advances
\* while poll_completion waits.  Hardware may or may not act.
ClockSpec ==
    /\ Init /\ [][Next]_vars
    /\ WF_vars(Running)
    /\ WF_vars(Clock)

\* poll_completion is between its entry and the end of its loop.
PcWaiting == ppc \in {"call", "polling"}

\* One step seen from poll_completion: the loop leaves "call" only by
\* starting a manual_poll_cq attempt; it ends only after an attempt
\* returned; it goes round again only when the attempt returned no record
\* and the clock read after it shows less than MAX_POLL_CQ_TIMEOUT since
\* entry; a step of the wait that consumes, consumes one record, and the
\* attempt it belongs to returns 1.
C14_Step ==
    /\ (ppc = "call" /\ ppc' # "call") => (ppc' = "polling" /\ rpc' # "idle")
    /\ (ppc # "ret" /\ ppc' = "ret") => (ppc = "polling" /\ rpc = "idle")
    /\ (ppc = "polling" /\ ppc' = "call") =>
          (rpc = "idle" /\ r_ret = 0 /\ elapsed < MAX_POLL_CQ_TIMEOUT)
    /\ (ppc = "polling" /\ rpc = "idle" /\ ppc' # "polling" /\ r_ret # 0) => ppc' = "ret"
    /\ (ppc = "polling" /\ rpc = "idle" /\ ppc' # "polling"
            /\ elapsed >= MAX_POLL_CQ_TIMEOUT) => ppc' = "ret"
    /\ (PcWaiting /\ cq_cons_index' # cq_cons_index) =>
          /\ cq_cons_index' = Add32(cq_cons_index, U32(1))
          /\ cq_cons_index = r_start.idx
          /\ r_ret' = 1 /\ rpc' = "idle" /\ ppc' = "polling"

\* C14: with a clock that advances, every poll_completion call terminates;
\* it makes at least one manual_poll_cq attempt, stops after the first
\* attempt that returns a record, starts no new attempt once the clock shows
\* MAX_POLL_CQ_TIMEOUT milliseconds since entry, and so consumes at most one
\* record.
C14_WaitTerminates ==
    /\ PcWaiting ~> (ppc = "ret")
    /\ [][C14_Step]_vars
    /\ [](PcReturning =>
            /\ Returned
            /\ cq_cons_index \in {r_start.idx, Add32(r_start.idx, U32(1))}
            /\ (cq_cons_index # r_start.idx <=> r_ret = 1)
            /\ (r_ret = 0 => elapsed >= MAX_POLL_CQ_TIMEOUT))

\* C14 witness: poll_completion returns after the attempt that consumed one
\* record, a second record waiting in the ring unconsumed, after an earlier
\* post failed in its wait.
C14_Witness ==
    /\ PcReturning
    /\ r_ret = 1
    /\ ToNat(hwProd) > ToNat(cq_cons_index)
    /\ elapsed < MAX_POLL_CQ_TIMEOUT
    /\ l_ret = -1

(***************************************************************************)
(* The reader late in a long run: the consumer index close below 2^24 (the *)
(* width of the doorbell value) or close below 2^32 (the width of the      *)
(* counter), every slot holding the record of the lap before, all of them  *)
(* consumed.                                                               *)
(***************************************************************************)
MaxWrap == 5

\* 2^24 - 2 and 2^32 - 2.
WrapStarts == { << 255, 65534 >>, << 65535, 65534 >> }

WrapEnds == { Add32(s, U32(MaxWrap)) : s \in WrapStarts }

\* The number of the last record before record number start written to slot s.
PrevRecord(start, s) ==
    LET last == Sub32(start, U32(1)) IN
    Sub32(last, U32(Mod32(Sub32(last, U32(s)), cqe_cnt)))

\* The slot as hardware left it when it wrote record n as a requester
\* completion.
WrittenCqe(n) ==
    [op_own |-> OpOwn(MLX5_CQE_REQ, HwOwner(n)),
     sop_drop_qpn |-> SynthPayload(n).sop_drop_qpn,
     byte_cnt |-> SynthPayload(n).byte_cnt,
     imm_inval_pkey |-> SynthPayload(n).imm_inval_pkey]

InitWrapRing ==
    /\ cqe_cnt \in CqeCnts
    /\ \E start \in WrapStarts :
          /\ cq = [s \in CqSlots |-> WrittenCqe(PrevRecord(start, s))]
          /\ dbrec = DoorbellValue(start)
          /\ cq_cons_index = start
          /\ r_start = [idx |-> start, db |-> DoorbellValue(start), written |-> start]
          /\ hwProd = start
    /\ rpc = "idle"
    /\ r_opcode = 0
    /\ r_owner = 0
    /\ r_expected = 0
    /\ r_sop = htobe32(U32(0))
    /\ wc = ZeroWc
    /\ r_ret = 0
    /\ hwBusy = FALSE
    /\ hwOverrun = FALSE
    /\ wqe_cnt = 1
    /\ bf_reg = TRUE
    /\ bf_size = BfSize
    /\ InitSend

\* Hardware starts record hwProd: the payload, while the slot is free.
HwWrapPayload ==
    /\ ~hwBusy
    /\ hwProd \notin WrapEnds
    /\ HwMayWrite
    /\ WritePayload(HwSlot(hwProd), SynthPayload(hwProd))
    /\ hwBusy' = TRUE
    /\ UNCHANGED <<hwProd, hwOverrun>>

NextWrapRing ==
    \/ RingCall /\ UNCHANGED <<cfgVars, mainVars, cq, dbrec, cqHwVars, sendVars>>
    \/ manual_poll_cq /\ UNCHANGED <<cfgVars, mainVars, cq, cqHwVars, sendVars>>
    \/ HwWrapPayload /\ UNCHANGED <<cfgVars, mainVars, dbrec, readerVars, sendVars>>
    \/ HwWriteOpOwn /\ UNCHANGED <<cfgVars, mainVars, dbrec, readerVars, sendVars>>

SpecWrapRing == InitWrapRing /\ [][NextWrapRing]_vars

\* The four bytes, most significant first, of index mod 2^24.
DbBytes(index) == << 0, index[1] % 256, index[2] \div 256, index[2] % 256 >>

\* C15: between the steps of the reader the doorbell record holds the
\* big-endian form of cq_cons_index mod 2^24, also once the index exceeds
\* 2^24 - 1; every step that consumes a record, error-status records
\* included, rewrites it for the new index.
C15_Doorbell ==
    /\ [](dbrec = DbBytes(cq_cons_index))
    /\ [][(cq_cons_index' # cq_cons_index) =>
             /\ cq_cons_index' = Add32(cq_cons_index, U32(1))
             /\ dbrec' = DbBytes(cq_cons_index')
             /\ dbrec' # dbrec]_vars

\* C15 witness: the reader consumed the error-status record numbered 2^24,
\* and the doorbell record holds 1.
C15_Witness ==
    /\ Returned /\ r_ret = 1
    /\ r_opcode = MLX5_CQE_REQ_ERR
    /\ wc.status = "IBV_WC_GENERAL_ERR"
    /\ cq_cons_index = << 256, 1 >>
    /\ dbrec = << 0, 0, 0, 1 >>

\* floor(index / cnt) mod 2 for a power of two cnt up to 2^16, by division.
LapParity(index, cnt) ==
    (((index[1] % 2) * ((Pow2_16 \div cnt) % 2)) + (index[2] \div cnt)) % 2

\* The mask forms of the reader agree with division and remainder at index.
MaskAgrees(index, cnt) ==
    /\ ExpectedOwner(index, cnt) = LapParity(index, cnt)
    /\ CqeIdx(index, cnt) = Mod32(index, cnt)

\* From index to index + 1 the expected ownership changes exactly when the
\* slot wraps to 0.
FlipsAtWrap(index, cnt) ==
    (ExpectedOwner(Add32(index, U32(1)), cnt) # ExpectedOwner(index, cnt))
        <=> (CqeIdx(Add32(index, U32(1)), cnt) = 0)

\* Ring sizes and indices the identities are evaluated at besides the ones
\* the run reaches.
SampleCnts == {1, 2, 4, 8, 256, 32768}
SampleIndices ==
    { << h, l >> : h \in {0, 1, 255, 32767, 32768, 65535},
                   l \in {0, 1, 2, 3, 7, 8, 255, 256, 32767, 32768, 65534, 65535} }

\* C19: for a power-of-two cqe_cnt, !!(index & cqe_cnt) is
\* floor(index / cqe_cnt) mod 2 and index & (cqe_cnt - 1) is index mod
\* cqe_cnt, at the consumer index and the producer index of every reachable
\* state and, evaluated before the first step, at the sample indices; the
\* expected ownership changes exactly when the slot wraps to 0, also from
\* 2^32 - 1 to 0.
C19_MaskIdentities ==
    /\ MaskAgrees(cq_cons_index, cqe_cnt) /\ FlipsAtWrap(cq_cons_index, cqe_cnt)
    /\ MaskAgrees(hwProd, cqe_cnt) /\ FlipsAtWrap(hwProd, cqe_cnt)
    /\ (rpc \in {"decode", "len", "sub", "flag", "imm", "publish"} =>
          r_expected = LapParity(cq_cons_index, cqe_cnt))
    /\ (cq_cons_index \in WrapStarts /\ hwProd = cq_cons_index /\ ~hwBusy) =>
          \A cnt \in SampleCnts : \A i \in SampleIndices :
             MaskAgrees(i, cnt) /\ FlipsAtWrap(i, cnt)

\* C19 witness: a ring of four slots; the reader consumed record 2^32 - 1
\* from slot 3 expecting ownership 1, the index wrapped to 0, slot 0, and
\* the expected ownership is 0.
C19_Witness ==
    /\ Returned /\ r_ret = 1
    /\ cqe_cnt = 4
    /\ r_start.idx = << 65535, 65535 >>
    /\ r_expected = 1
    /\ cq_cons_index = U32(0)
    /\ CqeIdx(cq_cons_index, cqe_cnt) = 0
    /\ ExpectedOwner(cq_cons_index, cqe_cnt) = 0

\* Counter c is left unchanged or increased by exactly 1 to d.
SameOrNext(c, d) == d = c \/ (d = Add32(c, U32(1)) /\ ToNat(d) = ToNat(c) + 1)

\* C16: cq_cons_index and sq_cur_post start at 0; every step, and every
\* whole manual_poll_cq and local_write call, leaves each counter unchanged
\* or increases it by exactly 1; no step decreases or resets one.
C16_Counters ==
    /\ cq_cons_index = U32(0) /\ sq_cur_post = U32(0)
    /\ [][/\ SameOrNext(cq_cons_index, cq_cons_index')
          /\ SameOrNext(sq_cur_post, sq_cur_post')]_vars
    /\ [](Returned => SameOrNext(r_start.idx, cq_cons_index))
    /\ [](lpc \in {"idle", "wait"} => SameOrNext(l_start.post, sq_cur_post))

\* C16 witness: the second post has advanced sq_cur_post to 2 and failed in
\* its wait, the last manual_poll_cq call having returned 0; cq_cons_index
\* is 1 from the first post's completion.
C16_Witness ==
    /\ lpc = "idle" /\ l_ret = -1
    /\ Returned /\ r_ret = 0
    /\ l_start.post = U32(1) /\ sq_cur_post = U32(2)
    /\ cq_cons_index = U32(1)

(***************************************************************************)
(* The poster late in a long run: sq_cur_post close below 2^16 (the width  *)
(* of the producer index in the control segment) or close below 2^32 (the  *)
(* width of the counter), every earlier post completed and consumed, the   *)
(* rings holding the descriptors and records of the lap before.            *)
(***************************************************************************)
MaxWrapPosts == 4

\* 2^16 - 2 and 2^32 - 2.
SqWrapStarts == { << 0, 65534 >>, << 65535, 65534 >> }

SqWrapEnds == { Add32(s, U32(MaxWrapPosts)) : s \in SqWrapStarts }

SqWrapCnts == {2, 4}

\* The number of the last post before post number start built in slot s.
PrevPost(start, s) ==
    LET last == Sub32(start, U32(1)) IN
    Sub32(last, U32(Mod32(Sub32(last, U32(s)), wqe_cnt)))

\* The slot as hardware left it when it completed post n.
SentCqe(n) ==
    [op_own |-> OpOwn(MLX5_CQE_REQ, HwOwner(n)),
     sop_drop_qpn |-> SendPayload(WqeOf(n)).sop_drop_qpn,
     byte_cnt |-> SendPayload(WqeOf(n)).byte_cnt,
     imm_inval_pkey |-> SendPayload(WqeOf(n)).imm_inval_pkey]

InitWrapSq ==
    /\ cqe_cnt \in SendCqeCnts
    /\ wqe_cnt \in SqWrapCnts
    /\ bf_reg = TRUE
    /\ bf_size = BfSize
    /\ \E start \in SqWrapStarts :
          /\ cq = [s \in CqSlots |-> SentCqe(PrevRecord(start, s))]
          /\ dbrec = DoorbellValue(start)
          /\ cq_cons_index = start
          /\ r_start = [idx |-> Sub32(start, U32(1)),
                        db |-> DoorbellValue(Sub32(start, U32(1))),
                        written |-> start]
          /\ hwProd = start
          /\ sq = [s \in 0 .. (wqe_cnt - 1) |-> WqeOf(PrevPost(start, s))]
          /\ sq_cur_post = start
          /\ l_start = [full |-> FALSE, sq |-> sq, ntrig |-> 0,
                        post |-> Sub32(start, U32(1)), off |-> U32(BfSize)]
          /\ hwWqe = WqeOf(Sub32(start, U32(1)))
          /\ wc = ClassifyWc(MLX5_CQE_REQ, SentCqe(Sub32(start, U32(1))))
          /\ r_expected = HwOwner(Sub32(start, U32(1)))
          /\ r_sop = SentCqe(Sub32(start, U32(1))).sop_drop_qpn
          /\ r_owner = HwOwner(Sub32(start, U32(1)))
    /\ rpc = "idle"
    /\ r_opcode = MLX5_CQE_REQ
    /\ r_ret = 1
    /\ hwBusy = FALSE
    /\ hwOverrun = FALSE
    /\ sbuf = {}
    /\ bf_offset = U32(0)
    /\ lpc = "idle"
    /\ l_ret = 0
    /\ ppc = "idle"
    /\ p_rc = 0
    /\ elapsed = 0
    /\ trig = << >>
    /\ hwSqCons = 0
    /\ hwStage = "idle"
    /\ hwQpErr = FALSE
    /\ lastFetch = [post |-> U32(0), wqe |-> ZeroWqe, fresh |-> FALSE]
    /\ mpc = IF CreateFailed THEN "exit" ELSE "loop"
    /\ m_rc = 1

\* A caller calls local_write.
CallLocalWriteWrap ==
    /\ mpc = "loop"
    /\ lpc = "idle"
    /\ rpc = "idle"
    /\ sq_cur_post \notin SqWrapEnds
    /\ lpc' = "bfcheck"
    /\ l_start' = [full |-> SqOutstanding >= wqe_cnt, sq |-> sq,
                   ntrig |-> Len(trig), post |-> sq_cur_post, off |-> bf_offset]
    /\ UNCHANGED <<sq_cur_post, bf_offset, l_ret, trig, waitVars, sqMemVars>>

\* Hardware observes the next trigger write made since the initial state
\* and reads the descriptor.
HwFetchWrap ==
    /\ hwStage = "idle"
    /\ hwSqCons < Len(trig)
    /\ hwWqe' = sq[HwSqSlot(trig[hwSqCons + 1].value)]
    /\ hwSqCons' = hwSqCons + 1
    /\ hwStage' = "fetched"
    /\ UNCHANGED <<hwQpErr, lastFetch>>

CallerWrap == CallLocalWriteWrap /\ readerFrame /\ UNCHANGED sqHwVars

HardwareWrap ==
    \/ HwFetchWrap /\ UNCHANGED <<cfgVars, mainVars, cq, dbrec, readerVars, cqHwVars,
                                  posterVars, waitVars, sqMemVars>>
    \/ HwComplete /\ UNCHANGED <<cfgVars, mainVars, dbrec, readerVars,
                                 posterVars, waitVars, sqMemVars>>
    \/ HwCqeOpOwn /\ UNCHANGED <<cfgVars, mainVars, dbrec, readerVars,
                                 posterVars, waitVars, sqMemVars>>

NextWrapSq == CallerWrap \/ Running \/ Memory \/ Clock \/ HardwareWrap

SpecWrapSq == InitWrapSq /\ [][NextWrapSq]_vars

\* sq_cur_post & (wqe_cnt - 1)
MaskSlot(post, cnt) == ToNat(And32(post, Sub32(U32(cnt), U32(1))))

\* C17: the slot a post uses is sq_cur_post & (wqe_cnt - 1), a slot of the
\* ring; the stores of the post in progress go to that slot and to no
\* other; the post after uses the next slot modulo wqe_cnt, also when
\* sq_cur_post wraps from 2^32 - 1 to 0.
C17_SlotOfPost ==
    /\ [](/\ WqeIdx(sq_cur_post, wqe_cnt) = MaskSlot(sq_cur_post, wqe_cnt)
          /\ WqeIdx(sq_cur_post, wqe_cnt) \in 0 .. (wqe_cnt - 1)
          /\ WqeIdx(NextPost(sq_cur_post), wqe_cnt)
                = (MaskSlot(sq_cur_post, wqe_cnt) + 1) % wqe_cnt
          /\ \A st \in sbuf : st.slot = MaskSlot(sq_cur_post, wqe_cnt))
    /\ [][\A s \in 0 .. (wqe_cnt - 1) :
             sq'[s] # sq[s] => s = MaskSlot(sq_cur_post, wqe_cnt)]_vars

\* C17 witness: in a ring of four slots post 2^32 - 1 was built in slot 3
\* and triggered, sq_cur_post wrapped to 0, and the next post has its
\* control segment stored in slot 0.
C17_Witness ==
    /\ wqe_cnt = 4
    /\ sq_cur_post = U32(0)
    /\ Len(trig) >= 2
    /\ trig[Len(trig)].post = << 65535, 65535 >>
    /\ sq[3] = WqeOf(<< 65535, 65535 >>)
    /\ lpc = "raddr"
    /\ \E st \in sbuf : st.slot = 0 /\ st.seg = "ctrl"

\* The producer index read back from a stored control segment.
CtrlPi(ctrl) == TrigPi(ctrl.opmod_idx_opcode)

\* C20: the producer index in the control segment of post k, as stored in
\* the slot and as carried by the trigger write, is k mod 2^16, and it is
\* congruent to the slot of the post modulo wqe_cnt, also when it wraps
\* from 2^16 - 1 to 0.
C20_ProducerIndex ==
    /\ Pi(sq_cur_post) = sq_cur_post[2]
    /\ Pi(sq_cur_post) % wqe_cnt = WqeIdx(sq_cur_post, wqe_cnt)
    /\ \A k \in 1 .. Len(trig) :
          /\ TrigPi(trig[k].value) = trig[k].post[2]
          /\ TrigPi(trig[k].value) % wqe_cnt = WqeIdx(trig[k].post, wqe_cnt)
    /\ (Len(trig) > 0 /\ lpc \in {"advance", "wait", "idle"}) =>
          LET t == trig[Len(trig)] IN
          /\ CtrlPi(sq[WqeIdx(t.post, wqe_cnt)].ctrl) = t.post[2]
          /\ CtrlPi(sq[WqeIdx(t.post, wqe_cnt)].ctrl) % wqe_cnt
                = WqeIdx(t.post, wqe_cnt)

\* C20 witness: in a ring of four slots post 2^16 - 1 was triggered with
\* producer index 65535 from slot 3, and post 2^16 with producer index 0
\* from slot 0.
C20_Witness ==
    /\ wqe_cnt = 4
    /\ Len(trig) >= 3
    /\ trig[2].post = << 0, 65535 >>
    /\ TrigPi(trig[2].value) = 65535
    /\ trig[3].post = << 1, 0 >>
    /\ TrigPi(trig[3].value) = 0
    /\ CtrlPi(sq[0].ctrl) = 0
    /\ CtrlPi(sq[3].ctrl) = 65535

\* be64toh: the value of eight bytes in address order.
be64toh(b) == be32toh(SubSeq(b, 1, 4)) \o be32toh(SubSeq(b, 5, 8))

\* The low byte of the host value of qpn_ds.
CtrlDs(ctrl) == be32toh(ctrl.qpn_ds)[2] % 256

\* The fields of a descriptor read back from the ring and converted from
\* big-endian to host order.
DecodeWqe(wqe) ==
    [opcode |-> CtrlOpcode(wqe.ctrl),
     pi |-> CtrlPi(wqe.ctrl),
     qp_num |-> CtrlQpn(wqe.ctrl),
     ds |-> CtrlDs(wqe.ctrl),
     fm_ce_se |-> wqe.ctrl.fm_ce_se,
     raddr |-> be64toh(wqe.raddr.raddr),
     rkey |-> be32toh(wqe.raddr.rkey),
     byte_count |-> be32toh(wqe.data.byte_count),
     lkey |-> be32toh(wqe.data.lkey),
     addr |-> be64toh(wqe.data.addr)]

\* The last trigger was written and no later post has begun to build.
Posted == Len(trig) > 0 /\ lpc \in {"advance", "wait", "idle"}

\* C18: the descriptor of the post last triggered, read back from its slot
\* and decoded from big-endian, gives the posted values: opcode RDMA write,
\* the post's producer index, the queue pair number, the completion flag,
\* a size of 3 sixteen-byte units, the remote address and key, and the
\* local length, key and address; its stored bytes are the big-endian ones.
C18_RoundTrip ==
    Posted =>
        LET t == trig[Len(trig)]
            wqe == sq[WqeIdx(t.post, wqe_cnt)]
        IN  /\ DecodeWqe(wqe) =
                  [opcode |-> MLX5_OPCODE_RDMA_WRITE,
                   pi |-> ToNat(t.post) % Pow2_16,
                   qp_num |-> U32(QpNum),
                   ds |-> 3,
                   fm_ce_se |-> MLX5_WQE_CTRL_CQ_UPDATE,
                   raddr |-> Add64(BufAddr, 4),
                   rkey |-> MrRkey,
                   byte_count |-> U32(4),
                   lkey |-> MrLkey,
                   addr |-> BufAddr]
            /\ wqe.ctrl.qpn_ds = << 0, 1, 45, 3 >>
            /\ wqe.ctrl.opmod_idx_opcode = << 0, 0, ToNat(t.post) % 256, 8 >>
            /\ wqe.data.byte_count = << 0, 0, 0, 4 >>
            /\ wqe.data.addr = << 0, 0, 0, 0, 33, 244, 144, 176 >>
            /\ wqe.raddr.raddr = << 0, 0, 0, 0, 33, 244, 144, 180 >>
            /\ t.value = wqe.ctrl.opmod_idx_opcode \o wqe.ctrl.qpn_ds

\* C18 witness: the third post was triggered from slot 0 of a ring of two
\* slots, which held the first post's descriptor before, and reads back
\* with producer index 2.
C18_Witness ==
    /\ Posted
    /\ wqe_cnt = 2
    /\ Len(trig) = 3
    /\ trig[3].post = U32(2)
    /\ DecodeWqe(sq[0]).pi = 2
    /\ DecodeWqe(sq[0]).opcode = MLX5_OPCODE_RDMA_WRITE
    /\ DecodeWqe(sq[1]).pi = 1

(***************************************************************************)
(* The program with hardware that may complete a request with an opcode    *)
(* manual_poll_cq has no case for.                                         *)
(***************************************************************************)
\* Hardware finishes the completion record: opcode and ownership.
HwCqeOpOwnAny ==
    /\ hwStage = "cqe"
    /\ hwBusy
    /\ \E op \in (IF hwQpErr THEN {MLX5_CQE_REQ_ERR}
                            ELSE SendCqeOpcodes \cup {UnknownCqeOpcode}) :
          /\ cq' = [cq EXCEPT ![HwSlot(hwProd)].op_own = OpOwn(op, HwOwner(hwProd))]
          /\ hwQpErr' = (op = MLX5_CQE_REQ_ERR)
    /\ hwProd' = Add32(hwProd, U32(1))
    /\ hwBusy' = FALSE
    /\ hwStage' = "idle"
    /\ UNCHANGED <<hwOverrun, hwSqCons, hwWqe, lastFetch>>

HardwareStall ==
    \/ HwFetch /\ UNCHANGED <<cfgVars, mainVars, cq, dbrec, readerVars, cqHwVars,
                              posterVars, waitVars, sqMemVars>>
    \/ HwComplete /\ UNCHANGED <<cfgVars, mainVars, dbrec, readerVars,
                                 posterVars, waitVars, sqMemVars>>
    \/ HwCqeOpOwnAny /\ UNCHANGED <<cfgVars, mainVars, dbrec, readerVars,
                                    posterVars, waitVars, sqMemVars>>

NextStall == Caller \/ Running \/ Memory \/ Clock \/ HardwareStall

\* The program keeps running once called and the clock advances.
SpecStall ==
    /\ Init /\ [][NextStall]_vars
    /\ WF_vars(Running)
    /\ WF_vars(Clock)

\* The slot at the consumer position holds a completely written record with
\* the expected ownership and an opcode without a case.
Stalled ==
    /\ ToNat(hwProd) > ToNat(cq_cons_index)
    /\ mlx5dv_get_cqe_owner(ConsCqe) = ExpectedOwner(cq_cons_index, cqe_cnt)
    /\ mlx5dv_get_cqe_opcode(ConsCqe) = UnknownCqeOpcode

\* Stalled, and the manual_poll_cq call in progress, if any, loaded the
\* opcode of that record (every later call does).
StalledFor ==
    /\ Stalled
    /\ \/ rpc \in {"idle", "opcode"}
       \/ r_start.idx = cq_cons_index /\ WrittenAtLoad

\* C21: once the slot at the consumer position holds a record with the
\* expected ownership and an opcode outside the known set, it stays so,
\* cq_cons_index never advances, every manual_poll_cq call that returns
\* returns 0, and every poll_completion that starts an attempt ends in
\* timeout, whatever sits in the following slots.
C21_UnknownOpcodeStalls ==
    /\ [][StalledFor =>
            /\ StalledFor'
            /\ cq_cons_index' = cq_cons_index /\ dbrec' = dbrec
            /\ (~Returned /\ Returned') => r_ret' = 0]_vars
    /\ (StalledFor /\ ppc = "call")
          ~> (StalledFor /\ ppc = "ret" /\ r_ret = 0 /\ p_rc = 1
                /\ elapsed >= MAX_POLL_CQ_TIMEOUT)

\* C21 witness: in a ring of two slots record 0 has an opcode without a
\* case and record 1 is a valid requester completion; the wait of the second
\* post ended in timeout with cq_cons_index still 0.
C21_Witness ==
    /\ StalledFor
    /\ cqe_cnt = 2
    /\ cq_cons_index = U32(0)
    /\ hwProd = U32(2)
    /\ mlx5dv_get_cqe_opcode(cq[1]) = MLX5_CQE_REQ
    /\ mlx5dv_get_cqe_owner(cq[1]) = HwOwner(U32(1))
    /\ PcReturning /\ p_rc = 1 /\ r_ret = 0
    /\ l_start.post = U32(1)

(* Further properties of the reader against flow-controlled hardware. *)
\* The slot the reader's pointer designates.
ConsSlot == CqeIdx(cq_cons_index, cqe_cnt)

\* C22: the doorbell record changes only in the last step of a call, after
\* the record's fields were read into wc, together with the increment of
\* cq_cons_index; from the ownership check to the end of the call the slot
\* at the consumer position does not change; and hardware writes to a slot
\* only when the record it held was consumed.
C22_DoorbellAfterRead ==
    /\ [][dbrec' # dbrec =>
            /\ rpc = "publish" /\ rpc' = "idle"
            /\ wc' = wc
            /\ wc.qp_num = And32(be32toh(ConsCqe.sop_drop_qpn), Mask24)
            /\ wc.byte_len = be32toh(ConsCqe.byte_cnt)
            /\ cq_cons_index' = Add32(cq_cons_index, U32(1))
            /\ be32toh(dbrec') = cq_cons_index']_vars
    /\ [][(rpc \in {"decode", "len", "sub", "flag", "imm", "publish"}) => (cq'[ConsSlot] = cq[ConsSlot])]_vars
    /\ [][\A s \in CqSlots :
            cq'[s] # cq[s] =>
               /\ s = HwSlot(hwProd)
               /\ ToNat(hwProd) < ToNat(cq_cons_index) + cqe_cnt]_vars

\* C22 witness: a ring of one slot; the reader is past the ownership check
\* of record 1 and has not published, and hardware, with record 2 to
\* write, may not write.
C22_Witness ==
    /\ cqe_cnt = 1
    /\ rpc = "decode"
    /\ cq_cons_index = U32(1)
    /\ hwProd = U32(2)
    /\ ~hwBusy
    /\ ~HwMayWrite

(***************************************************************************)
(* main: the loop that calls local_write repeat_count times and leaves at  *)
(* the first call that fails, then main_exit: resources_destroy and the    *)
(* return of rc.  The loop counter i equals sq_cur_post while main is in   *)
(* the loop, every successful call having advanced both by one.            *)
(***************************************************************************)
\* config.repeat_count
repeat_count == MaxPosts

\* for (i = 0; i < config.repeat_count; i++) if (local_write(&res)) goto main_exit;
MainCallLocalWrite ==
    /\ mpc = "loop"
    /\ lpc = "idle"
    /\ l_ret = 0
    /\ ToNat(sq_cur_post) < repeat_count
    /\ lpc' = "bfcheck"
    /\ l_start' = [full |-> SqOutstanding >= wqe_cnt, sq |-> sq,
                   ntrig |-> Len(trig), post |-> sq_cur_post, off |-> bf_offset]
    /\ UNCHANGED <<sq_cur_post, bf_offset, l_ret, trig, waitVars, sqMemVars>>

\* Leaving the loop: goto main_exit after a call that failed (rc keeps its
\* initial 1), or rc = 0 after the last iteration.
MainLeaveLoop ==
    /\ mpc = "loop"
    /\ lpc = "idle"
    /\ l_ret # 0 \/ ToNat(sq_cur_post) >= repeat_count
    /\ m_rc' = IF l_ret # 0 THEN m_rc ELSE 0
    /\ mpc' = "exit"

\* main_exit: if (resources_destroy(&res)) rc = 1; return rc.
\* resources_destroy returns 1 when an ibv_destroy_qp, ibv_dereg_mr,
\* ibv_destroy_cq, ibv_dealloc_pd or ibv_close_device of it fails, else 0.
MainDestroy ==
    /\ mpc = "exit"
    /\ \E d \in {0, 1} : m_rc' = IF d # 0 THEN 1 ELSE m_rc
    /\ mpc' = "done"

\* main has left the loop.
MainExited == mpc # "loop"

MainCaller == MainCallLocalWrite /\ readerFrame /\ UNCHANGED sqHwVars

\* A step of local_write, of its poll_completion or of the manual_poll_cq
\* call in it.
MainRunning ==
    \/ LwCheckBlueflame /\ readerFrame /\ UNCHANGED sqHwVars
    \/ LwSetCtrlSeg /\ readerFrame /\ UNCHANGED sqHwVars
    \/ LwSetRaddrSeg /\ readerFrame /\ UNCHANGED sqHwVars
    \/ LwSetDataSeg /\ readerFrame /\ UNCHANGED sqHwVars
    \/ LwBarrier /\ readerFrame /\ UNCHANGED sqHwVars
    \/ LwTrigger /\ readerFrame /\ UNCHANGED sqHwVars
    \/ LwAdvance /\ readerFrame /\ UNCHANGED sqHwVars
    \/ PcCall /\ UNCHANGED <<cfgVars, mainVars, cq, dbrec, cqHwVars, sqHwVars>>
    \/ PcCheck /\ readerFrame /\ UNCHANGED sqHwVars
    \/ LwReturn /\ readerFrame /\ UNCHANGED sqHwVars
    \/ manual_poll_cq /\ UNCHANGED <<cfgVars, mainVars, cq, cqHwVars, sendVars>>

NextMain ==
    \/ MainCaller
    \/ MainRunning
    \/ MainLeaveLoop /\ UNCHANGED <<cfgVars, cq, dbrec, readerVars, cqHwVars, sendVars>>
    \/ MainDestroy /\ UNCHANGED <<cfgVars, cq, dbrec, readerVars, cqHwVars, sendVars>>
    \/ Memory
    \/ Clock
    \/ Hardware

MainSpec == Init /\ [][NextMain]_vars

\* C23: in main's flow sq_cur_post - cq_cons_index is 0 or 1 at every
\* point and 0 whenever local_write has returned 0, so that no call finds
\* the send ring full and no post is built in a slot whose earlier
\* descriptor has no consumed completion.
C23_OneOutstanding ==
    /\ Sub32(sq_cur_post, cq_cons_index) \in {U32(0), U32(1)}
    /\ (lpc = "idle" /\ l_ret = 0) => sq_cur_post = cq_cons_index
    /\ (lpc \in {"bfcheck", "ctrl", "raddr", "data", "barrier", "trigger", "advance"}) =>
          /\ sq_cur_post = cq_cons_index
          /\ ~l_start.full
          /\ (lpc # "advance" => (hwSqCons = Len(trig) /\ hwStage = "idle"))

\* C23 witness: in a send ring of one slot the third post is being built in
\* the slot of the first two, both of them completed and consumed.
C23_Witness ==
    /\ wqe_cnt = 1
    /\ lpc = "data"
    /\ sq_cur_post = U32(2)
    /\ cq_cons_index = U32(2)
    /\ Len(trig) = 2
    /\ sq[0].ctrl = CtrlSegOf(U32(1))
    /\ \E st \in sbuf : st.seg = "ctrl" /\ st.val = CtrlSegOf(U32(2))

\* C24: main makes at most repeat_count trigger writes, one for each post
\* number; once it has left the loop, after a failed local_write or after
\* the last one, it takes no further step, so nothing is posted or polled
\* again; and its result is success only if repeat_count posts were
\* triggered and the completion of each, a success, was consumed.
C24_NoRetry ==
    /\ [](/\ Len(trig) <= repeat_count
          /\ \A k \in 1 .. Len(trig) : trig[k].post = U32(k - 1))
    /\ [][MainExited =>
            UNCHANGED <<posterVars, waitVars, readerVars, sqMemVars, dbrec>>]_vars
    /\ []((mpc = "done" /\ m_rc = 0) =>
            /\ Len(trig) = repeat_count
            /\ sq_cur_post = U32(repeat_count)
            /\ cq_cons_index = U32(repeat_count)
            /\ hwProd = U32(repeat_count)
            /\ ~hwQpErr
            /\ r_ret = 1 /\ wc.status = "IBV_WC_SUCCESS")

(***************************************************************************)
(* The reader against hardware that completes with every opcode the switch *)
(* has a case for and every sub-code of the requester switch, one of them  *)
(* without a case.                                                         *)
(***************************************************************************)
MaxClass == 1

\* The sub-codes with a case, and sub-code 0 (MLX5_OPCODE_NOP), without.
ClassSubCodes ==
    {MLX5_OPCODE_RDMA_WRITE, MLX5_OPCODE_RDMA_WRITE_IMM, MLX5_OPCODE_SEND,
     MLX5_OPCODE_SEND_IMM, MLX5_OPCODE_SEND_INVAL, MLX5_OPCODE_RDMA_READ, 0}

\* Payload of record n with sub-code sub.
ClassPayload(n, sub) ==
    [sop_drop_qpn |-> htobe32(<< (sub * 256) + (QpNum \div Pow2_16), QpNum % Pow2_16 >>),
     byte_cnt |-> htobe32(Tag(n)),
     imm_inval_pkey |-> htobe32(SynthImm(n))]

\* Hardware starts record hwProd: the payload, while the slot is free.
HwClassPayload ==
    /\ ~hwBusy
    /\ ToNat(hwProd) < MaxClass
    /\ HwMayWrite
    /\ \E sub \in ClassSubCodes : WritePayload(HwSlot(hwProd), ClassPayload(hwProd, sub))
    /\ hwBusy' = TRUE
    /\ UNCHANGED <<hwProd, hwOverrun>>

\* Hardware finishes record hwProd: opcode and ownership.
HwClassOpOwn ==
    /\ hwBusy
    /\ \E op \in KnownCqeOpcodes :
          cq' = [cq EXCEPT ![HwSlot(hwProd)].op_own = OpOwn(op, HwOwner(hwProd))]
    /\ hwProd' = Add32(hwProd, U32(1))
    /\ hwBusy' = FALSE
    /\ UNCHANGED hwOverrun

NextClassify ==
    \/ RingCall /\ UNCHANGED <<cfgVars, mainVars, cq, dbrec, cqHwVars, sendVars>>
    \/ manual_poll_cq /\ UNCHANGED <<cfgVars, mainVars, cq, cqHwVars, sendVars>>
    \/ HwClassPayload /\ UNCHANGED <<cfgVars, mainVars, dbrec, readerVars, sendVars>>
    \/ HwClassOpOwn /\ UNCHANGED <<cfgVars, mainVars, dbrec, readerVars, sendVars>>

SpecClassify == InitRing /\ [][NextClassify]_vars

\* The first byte (the high 8 bits) and the last three bytes (the low 24
\* bits) of the big-endian field sop_drop_qpn.
SubCodeByte(cqe) == cqe.sop_drop_qpn[1]
QpnBytes(cqe) ==
    << cqe.sop_drop_qpn[2], (cqe.sop_drop_qpn[3] * 256) + cqe.sop_drop_qpn[4] >>

\* The operation kind of a success opcode and sub-code.
KindOf(opcode, sub) ==
    IF opcode = MLX5_CQE_REQ
    THEN CASE sub \in {MLX5_OPCODE_RDMA_WRITE, MLX5_OPCODE_RDMA_WRITE_IMM} -> "IBV_WC_RDMA_WRITE"
           [] sub \in {MLX5_OPCODE_SEND, MLX5_OPCODE_SEND_IMM, MLX5_OPCODE_SEND_INVAL} -> "IBV_WC_SEND"
           [] sub = MLX5_OPCODE_RDMA_READ -> "IBV_WC_RDMA_READ"
           [] OTHER -> "IBV_WC_SEND"
    ELSE IF opcode = MLX5_CQE_RESP_WR_IMM THEN "IBV_WC_RECV_RDMA_WITH_IMM"
    ELSE "IBV_WC_RECV"

\* C25: a call about to consume a record, having read opcode r_opcode, has
\* classified it by the list of the claim: the operation kind by opcode and
\* sub-code with success status, the with-immediate flag exactly for
\* RESP_SEND_IMM, RESP_WR_IMM and REQ with sub-code SEND_IMM or
\* RDMA_WRITE_IMM, the immediate value from the record exactly for the two
\* response classes with immediate, the queue pair number from the low 24
\* bits and the sub-code from the high 8 bits of sop_drop_qpn.
C25_Classification ==
    rpc = "publish" =>
        LET sub == SubCodeByte(ConsCqe) IN
        /\ wc.qp_num = QpnBytes(ConsCqe)
        /\ (r_opcode \in {MLX5_CQE_REQ, MLX5_CQE_RESP_SEND, MLX5_CQE_RESP_SEND_IMM,
                          MLX5_CQE_RESP_WR_IMM}) =>
              (wc.status = "IBV_WC_SUCCESS" /\ wc.opcode = KindOf(r_opcode, sub))
        /\ ("IBV_WC_WITH_IMM" \in wc.wc_flags) <=>
              \/ r_opcode \in {MLX5_CQE_RESP_SEND_IMM, MLX5_CQE_RESP_WR_IMM}
              \/ r_opcode = MLX5_CQE_REQ
                    /\ sub \in {MLX5_OPCODE_SEND_IMM, MLX5_OPCODE_RDMA_WRITE_IMM}
        /\ wc.imm_data = (IF r_opcode \in {MLX5_CQE_RESP_SEND_IMM, MLX5_CQE_RESP_WR_IMM}
                          THEN be32toh(ConsCqe.imm_inval_pkey) ELSE U32(0))

\* C25 witness: a requester completion with sub-code RDMA_WRITE_IMM is
\* classified as an RDMA write with the with-immediate flag and no
\* immediate value, the record's immediate field not being 0.
C25_Witness ==
    /\ rpc = "publish"
    /\ r_opcode = MLX5_CQE_REQ
    /\ SubCodeByte(ConsCqe) = MLX5_OPCODE_RDMA_WRITE_IMM
    /\ wc.opcode = "IBV_WC_RDMA_WRITE"
    /\ wc.wc_flags = {"IBV_WC_WITH_IMM"}
    /\ wc.imm_data = U32(0)
    /\ be32toh(ConsCqe.imm_inval_pkey) # U32(0)

\* The step is one of manual_poll_cq or of poll_completion's loop.
ReaderStep ==
    \/ readerVars' # readerVars
    \/ dbrec' # dbrec
    \/ ppc \in {"call", "polling"} /\ <<ppc, p_rc>>' # <<ppc, p_rc>>

\* The step is a descriptor-build, barrier or trigger step of local_write.
BuildStep ==
    /\ lpc \in {"ctrl", "raddr", "data", "barrier", "trigger"}
    /\ lpc' # lpc

\* C26: no step of manual_poll_cq or poll_completion changes sq_cur_post,
\* bf_offset, the send ring, the pending stores to it or the trigger
\* writes; no descriptor-build or trigger step of local_write changes
\* cq_cons_index, the completion ring or the doorbell record.
C26_Frames ==
    /\ [][ReaderStep => UNCHANGED <<sq_cur_post, bf_offset, sq, sbuf, trig>>]_vars
    /\ [][BuildStep => UNCHANGED <<cq_cons_index, cq, dbrec, wc, r_ret>>]_vars

\* C26 witness: poll_completion returns after manual_poll_cq consumed the
\* completion of the first post; the post counter, the trigger offset, the
\* descriptor in the ring and the trigger write are as local_write left
\* them.
C26_Witness ==
    /\ PcReturning /\ r_ret = 1
    /\ cq_cons_index = U32(1)
    /\ sq_cur_post = U32(1)
    /\ bf_offset = U32(BfSize)
    /\ sq[0] = WqeOf(U32(0))
    /\ sbuf = {}
    /\ Len(trig) = 1 /\ trig[1].offset = U32(0)

\* The 64 bytes at offset off lie inside a ring of cnt slots of size bytes.
InsideRing(off, cnt, size) == off >= 0 /\ off + 64 <= cnt * size

\* The offset by the claim: slot base for 64-byte records, slot base plus 64
\* for 128-byte records, the slot being index mod cnt.
ClaimedOffset(index, cnt, size) ==
    IF size = 128 THEN (Mod32(index, cnt) * 128) + 64 ELSE Mod32(index, cnt) * 64

\* C27: for record sizes 64 and 128 the record manual_poll_cq reads starts
\* at the claimed offset and its 64 bytes lie inside the ring, at the
\* consumer index of every reachable state (around 2^24 and 2^32) and,
\* evaluated before the first step, at the sample indices and ring sizes.
C27_RecordInsideRing ==
    /\ \A size \in CqeSizes :
          /\ CqeOffset(cq_cons_index, cqe_cnt, size)
                = ClaimedOffset(cq_cons_index, cqe_cnt, size)
          /\ InsideRing(CqeOffset(cq_cons_index, cqe_cnt, size), cqe_cnt, size)
          /\ CqeOffset(cq_cons_index, cqe_cnt, size) \div size = ConsSlot
    /\ (cq_cons_index \in WrapStarts /\ hwProd = cq_cons_index /\ ~hwBusy) =>
          \A size \in CqeSizes : \A cnt \in SampleCnts : \A i \in SampleIndices :
             /\ CqeOffset(i, cnt, size) = ClaimedOffset(i, cnt, size)
             /\ InsideRing(CqeOffset(i, cnt, size), cnt, size)

\* C27 witness: the reader decodes record 2^32 - 1 in the last of four
\* slots: with 128-byte records at offset 448, which ends at the end of the
\* ring, with 64-byte records at offset 192.
C27_Witness ==
    /\ rpc = "decode"
    /\ cqe_cnt = 4
    /\ cq_cons_index = << 65535, 65535 >>
    /\ CqeOffset(cq_cons_index, cqe_cnt, 128) = 448
    /\ CqeOffset(cq_cons_index, cqe_cnt, 64) = 192
    /\ CqeOffset(cq_cons_index, cqe_cnt, 128) + 64 = cqe_cnt * 128

=============================================================================
